---- MODULE Spec2Model ----
(***************************************************************************)
(* A model of @cldmv/jsonv: the tokenizer of src/src/lexer/lexer.mts, the  *)
(* parser and the evaluator of src/src/parser.mts (Parser.parse,           *)
(* Parser.evaluate and the operations they call), and the entry points     *)
(* parse and parseWithOptions that run the three in turn.                  *)
(*                                                                         *)
(* A text is a sequence of one-character strings; the backtick is written  *)
(* as the character of Backtick.                                           *)
(*                                                                         *)
(* JavaScript values are records tagged by t:                              *)
(*   num n, str s, bool b, null, undef, fn s     primitives and functions  *)
(*   num text         a number that is no integer, by its decimal text     *)
(*   num neg int      an integer of more than nine digits, by its sign and *)
(*                    decimal digits (bigint neg int likewise)             *)
(*   num special      Infinity, -Infinity, NaN                             *)
(*   bigint n         a BigInt                                             *)
(*   obj id ks vs     a plain object: own keys in enumeration order        *)
(*   arr id vs        an array (a hole is an undef element)                *)
(*   unres id path node   the marker {__UNRESOLVED__: true, path, node}    *)
(*   ast id node      a syntax-tree node seen as a value                   *)
(* id is the identity of the JavaScript object: <<pass, path...>> of the   *)
(* place where it was created.  Of a source span (loc) only its start is   *)
(* modelled: offset, line and column.                                      *)
(***************************************************************************)
EXTENDS Integers, Sequences, FiniteSets, TLC

VARIABLES
    source,     \* the text handed to parse, a sequence of characters
    tokens,     \* Parser.tokens
    errors,     \* Parser.errors
    program,    \* Program.body handed to evaluate
    options,    \* this.options
    pc,         \* position in the parse call
    result,     \* the local variable result of evaluate
    pass,       \* the loop variable of evaluate
    changed,    \* changed of the last resolvePass
    thrown,     \* the exception that left the call, or NoError
    returned,   \* the value the call returned
    calls,      \* the calls of options.reviver so far, <<key, value>> each
    lexerPos,       \* Lexer.pos (from 1) while tokenize is followed token by token
    templateDepth,  \* Lexer.templateDepth, likewise
    written,        \* the text stringify has returned for the value parse returned
    reparsed        \* what parse has made of that text: the value or the exception

vars == <<source, tokens, errors, program, options, pc, result, pass, changed, thrown,
          returned, calls, lexerPos, templateDepth, written, reparsed>>

-----------------------------------------------------------------------------
(* Values *)

Num(n) == [t |-> "num", n |-> n]
Str(s) == [t |-> "str", s |-> s]
Bool(b) == [t |-> "bool", b |-> b]
Null == [t |-> "null"]
Undef == [t |-> "undef"]
Fn(s) == [t |-> "fn", s |-> s]
Obj(id, ks, vs) == [t |-> "obj", id |-> id, ks |-> ks, vs |-> vs]
Arr(id, vs) == [t |-> "arr", id |-> id, vs |-> vs]
Ast(id, node) == [t |-> "ast", id |-> id, node |-> node]

NoError == [kind |-> "none"]
TypeError(msg) == [kind |-> "TypeError", msg |-> msg]
EvalError(msg) == [kind |-> "Error", msg |-> msg]

\* A result of an operation that may throw: the value, or the exception.
Ok(v) == [ok |-> TRUE, value |-> v]
Throw(e) == [ok |-> FALSE, error |-> e]

Range(s) == {s[i] : i \in DOMAIN s}
IndexOf(ks, k) == IF \E i \in DOMAIN ks : ks[i] = k
                  THEN CHOOSE i \in DOMAIN ks : ks[i] = k
                  ELSE 0

-----------------------------------------------------------------------------
(* Syntax trees: src/src/ast-types.mts *)

Literal(v) == [type |-> "Literal", value |-> v]
Identifier(name) == [type |-> "Identifier", name |-> name]
MemberExpression(object, property) ==
    [type |-> "MemberExpression", object |-> object, property |-> Identifier(property)]
TemplateLiteral(quasis, expressions) ==
    [type |-> "TemplateLiteral", quasis |-> quasis, expressions |-> expressions]
Property(key, value) == [type |-> "Property", key |-> key, value |-> value]
ObjectExpression(properties) == [type |-> "ObjectExpression", properties |-> properties]
ArrayExpression(elements) == [type |-> "ArrayExpression", elements |-> elements]

TemplateElement(cooked, tail) == [type |-> "TemplateElement", cooked |-> cooked, tail |-> tail]

-----------------------------------------------------------------------------
(* JavaScript property access on the values above *)

\* Names every plain object inherits from Object.prototype (those of the model's
\* name universe), as functions.
ObjectPrototype == {"constructor", "toString", "valueOf", "hasOwnProperty"}
Inherited(ctor, name) == IF name = "constructor" THEN Fn(ctor) ELSE Fn(name)

\* The own enumerable keys of an object, in for-in order.
AstKeys(node) ==
    CASE node.type = "Identifier" -> <<"type", "name">>
      [] node.type = "MemberExpression" -> <<"type", "object", "property", "computed">>
      [] node.type = "TemplateLiteral" -> <<"type", "quasis", "expressions">>
      [] node.type = "TemplateElement" -> <<"type", "value", "tail">>
      [] node.type = "TemplateValue" -> <<"cooked">>
      [] node.type = "Literal" -> <<"type", "value">>
      [] node.type = "NodeList" -> <<>>
      [] OTHER -> <<"type">>

OwnKeys(v) ==
    CASE v.t = "obj" -> v.ks
      [] v.t = "unres" -> <<"__UNRESOLVED__", "path", "node">>
      [] v.t = "ast" -> AstKeys(v.node)
      [] OTHER -> <<>>

\* The value of a field of a syntax-tree node, as a JavaScript value.
AstField(id, node, k) ==
    CASE k = "type" -> Str(node.type)
      [] k = "name" -> Str(node.name)
      [] k = "object" -> Ast(Append(id, k), node.object)
      [] k = "property" -> Ast(Append(id, k), node.property)
      [] k = "computed" -> Bool(FALSE)
      [] k = "quasis" ->
           Arr(Append(id, k),
               [i \in DOMAIN node.quasis |->
                   Ast(id \o <<k, ToString(i - 1)>>, node.quasis[i])])
      [] k = "expressions" ->
           Arr(Append(id, k),
               [i \in DOMAIN node.expressions |->
                   Ast(id \o <<k, ToString(i - 1)>>, node.expressions[i])])
      [] k = "value" /\ node.type = "TemplateElement" ->
           Ast(Append(id, k), [type |-> "TemplateValue", cooked |-> node.cooked])
      [] k = "value" -> node.value
      [] k = "cooked" -> Str(node.cooked)
      [] k = "tail" -> Bool(node.tail)
      [] OTHER -> Undef

\* The own property k of an object-like value (k is one of its own keys).
GetOwn(v, k) ==
    CASE v.t = "obj" -> v.vs[IndexOf(v.ks, k)]
      [] v.t = "unres" ->
           CASE k = "__UNRESOLVED__" -> Bool(TRUE)
             [] k = "path" -> Str(v.path)
             [] OTHER -> Ast(Append(v.id, "node"), v.node)
      [] v.t = "ast" -> AstField(v.id, v.node, k)
      [] OTHER -> Undef

\* typeof v === "object" (null included, as in JavaScript)
TypeofObject(v) == v.t \in {"obj", "arr", "unres", "ast", "null"}

\* k in v, for a non-null v with typeof v === "object"
HasProp(v, k) ==
    \/ k \in Range(OwnKeys(v))
    \/ v.t = "arr" /\ k = "length"
    \/ k \in ObjectPrototype

\* v[k], for a v that is neither null nor undefined
GetProp(v, k) ==
    CASE k \in Range(OwnKeys(v)) -> GetOwn(v, k)
      [] v.t = "arr" /\ k = "length" -> Num(Len(v.vs))
      [] v.t = "str" /\ k = "length" -> Num(Len(v.s))
      [] k \in ObjectPrototype ->
           Inherited(CASE v.t = "arr" -> "Array"
                       [] v.t = "str" -> "String"
                       [] v.t = "num" -> "Number"
                       [] v.t = "bigint" -> "BigInt"
                       [] v.t = "bool" -> "Boolean"
                       [] v.t = "fn" -> "Function"
                       [] OTHER -> "Object", k)
      [] OTHER -> Undef

\* value && ... : JavaScript truthiness
Truthy(v) ==
    CASE v.t \in {"null", "undef"} -> FALSE
      [] v.t = "bool" -> v.b
      [] v.t = "num" -> IF "n" \in DOMAIN v THEN v.n # 0
                        ELSE IF "special" \in DOMAIN v THEN v.special # "NaN"
                        ELSE TRUE
      [] v.t = "bigint" -> IF "n" \in DOMAIN v THEN v.n # 0 ELSE TRUE
      [] v.t = "str" -> v.s # ""
      [] OTHER -> TRUE

\* The text of a sequence of characters
RECURSIVE Text(_)
Text(chars) == IF chars = <<>> THEN "" ELSE chars[1] \o Text(Tail(chars))

\* String(v)
RECURSIVE ToStr(_)
ToStr(v) ==
    CASE v.t = "str" -> v.s
      [] v.t = "num" -> IF "n" \in DOMAIN v THEN ToString(v.n)
                        ELSE IF "special" \in DOMAIN v THEN v.special
                        ELSE IF "int" \in DOMAIN v
                        THEN (IF v.neg THEN "-" ELSE "") \o Text(v.int)
                        ELSE v.text
      [] v.t = "bigint" -> IF "n" \in DOMAIN v THEN ToString(v.n)
                           ELSE (IF v.neg THEN "-" ELSE "") \o Text(v.int)
      [] v.t = "bool" -> IF v.b THEN "true" ELSE "false"
      [] v.t = "null" -> "null"
      [] v.t = "undef" -> "undefined"
      [] v.t = "fn" -> "function " \o v.s \o "() { [native code] }"
      [] v.t = "arr" ->
           LET RECURSIVE Join(_)
               Join(i) ==
                   IF i > Len(v.vs) THEN ""
                   ELSE (IF i > 1 THEN "," ELSE "")
                        \o (IF v.vs[i].t \in {"null", "undef"} THEN "" ELSE ToStr(v.vs[i]))
                        \o Join(i + 1)
           IN Join(1)
      [] OTHER -> "[object Object]"

-----------------------------------------------------------------------------
(* The lexer: src/src/lexer/lexer.mts.  The input is a sequence of characters *)
(* (strings of length 1); pos is the index of the next character, from 1.     *)

FEATURE_YEARS == <<2011, 2015, 2020, 2021>>

\* getFeatureYear with the comparison of its loop turned round.
getFeatureYearTurned(year) ==
    IF year < FEATURE_YEARS[1] THEN FEATURE_YEARS[1]
    ELSE LET at == {i \in DOMAIN FEATURE_YEARS : year <= FEATURE_YEARS[i]}
         IN IF at = {} THEN FEATURE_YEARS[1]
            ELSE FEATURE_YEARS[CHOOSE i \in at : \A j \in at : j <= i]

\* The loop runs from the last feature year down and returns at the first one
\* the year has reached; the return after the loop is the minimum.
getFeatureYear(year) ==
    IF year < FEATURE_YEARS[1] THEN FEATURE_YEARS[1]
    ELSE LET at == {i \in DOMAIN FEATURE_YEARS : year >= FEATURE_YEARS[i]}
         IN IF at = {} THEN FEATURE_YEARS[1]
            ELSE FEATURE_YEARS[CHOOSE i \in at : \A j \in at : j <= i]

PUBLISHED_YEARS == <<2011, 2015, 2020, 2021>>

LATEST_YEAR == 2021

\* resolveYear with < for <= in its loop.
resolveYearBelow(year) ==
    IF year >= LATEST_YEAR THEN LATEST_YEAR
    ELSE IF year <= 2011 THEN 2011
    ELSE LET at == {i \in DOMAIN PUBLISHED_YEARS : PUBLISHED_YEARS[i] < year}
         IN IF at = {} THEN 2011
            ELSE PUBLISHED_YEARS[CHOOSE i \in at : \A j \in at : j <= i]

resolveYear(year) ==
    IF year >= LATEST_YEAR THEN LATEST_YEAR
    ELSE IF year <= 2011 THEN 2011
    ELSE LET at == {i \in DOMAIN PUBLISHED_YEARS : PUBLISHED_YEARS[i] <= year}
         IN IF at = {} THEN 2011
            ELSE PUBLISHED_YEARS[CHOOSE i \in at : \A j \in at : j <= i]

\* The options the Parser constructor hands the Lexer, with the Lexer's defaults.
\* The options of a lexer that allows binary and octal literals from 2011.
LexerOptionsEarly(opts) ==
    LET featureYear == getFeatureYear(getFeatureYear(opts.year))
    IN [preserveComments |-> opts.preserveComments,
        year |-> featureYear,
        allowNumericSeparators |-> featureYear >= 2021,
        allowBigInt |-> featureYear >= 2020,
        allowTemplateLiterals |-> featureYear >= 2015,
        allowHexLiterals |-> featureYear >= 2011,
        allowBinaryOctalLiterals |-> featureYear >= 2011,
        strictOctal |-> opts.strictOctal,
        mode |-> opts.mode]

LexerOptions(opts) ==
    LET featureYear == getFeatureYear(getFeatureYear(opts.year))
    IN [preserveComments |-> opts.preserveComments,
        year |-> featureYear,
        allowNumericSeparators |-> featureYear >= 2021,
        allowBigInt |-> featureYear >= 2020,
        allowTemplateLiterals |-> featureYear >= 2015,
        allowHexLiterals |-> featureYear >= 2011,
        allowBinaryOctalLiterals |-> featureYear >= 2015,
        strictOctal |-> opts.strictOctal,
        mode |-> opts.mode]

LexerError(message, code, offset) ==
    [kind |-> "LexerError", msg |-> message, code |-> code, offset |-> offset]

\* A native SyntaxError: thrown by parse and parseWithOptions, and by BigInt().
SyntaxError(message) == [kind |-> "SyntaxError", msg |-> message]

\* createToken with the lexer at pos: the token ends there and starts raw.length
\* before (offset counts from 0).  The line and column of its start, which
\* need the input, are added by startPos.
createToken(type, value, raw, pos) ==
    [type |-> type, value |-> value, raw |-> raw, offset |-> pos - 1 - Len(raw)]

\* getCurrentPosition with the lexer at pos: advance has counted a line for
\* every "\n" consumed and a column for every character after the last one
\* (this.line starts at 1 and this.column at 0).
getCurrentPosition(input, pos) ==
    LET newlines == {i \in 1..(pos - 1) : input[i] = "\n"}
        RECURSIVE Last(_)
        Last(i) == IF i = 0 \/ input[i] = "\n" THEN i ELSE Last(i - 1)
    IN [line |-> 1 + Cardinality(newlines),
        column |-> (pos - 1) - Last(pos - 1),
        offset |-> pos - 1]

\* loc.start of a token as createToken computes it: the line of the END of
\* the token, and the column of its end less raw.length.
startPos(input, token) ==
    LET endPos == getCurrentPosition(input, token.offset + Len(token.raw) + 1)
    IN [line |-> endPos.line,
        column |-> endPos.column - Len(token.raw),
        offset |-> token.offset]

\* What a scanner leaves: the token, the new pos and the new templateDepth.
Scanned(type, value, raw, pos, depth) ==
    [ok |-> TRUE, token |-> createToken(type, value, raw, pos), pos |-> pos, depth |-> depth]

\* "\0", what peek and peekNext answer past the end of the input
NUL == "<NUL>"

\* The backtick, which a TLA+ string cannot hold, is written ~ in the inputs.
Backtick == "~"

Digits == {"0", "1", "2", "3", "4", "5", "6", "7", "8", "9"}
LowerCase ==
    {"a", "b", "c", "d", "e", "f", "g", "h", "i", "j", "k", "l", "m",
     "n", "o", "p", "q", "r", "s", "t", "u", "v", "w", "x", "y", "z"}
UpperCase ==
    {"A", "B", "C", "D", "E", "F", "G", "H", "I", "J", "K", "L", "M",
     "N", "O", "P", "Q", "R", "S", "T", "U", "V", "W", "X", "Y", "Z"}

isWhitespace(ch) == ch \in {" ", "\t", "\n", "\r"}
isDigit(ch) == ch \in Digits
isHexDigit(ch) ==
    isDigit(ch) \/ ch \in {"a", "b", "c", "d", "e", "f", "A", "B", "C", "D", "E", "F"}
isIdentifierStart(ch) == ch \in LowerCase \cup UpperCase \cup {"_", "$"}
isIdentifierPart(ch) == isIdentifierStart(ch) \/ isDigit(ch)

peekAhead(input, pos, n) == IF pos + n > Len(input) THEN NUL ELSE input[pos + n]
peek(input, pos) == peekAhead(input, pos, 0)
peekNext(input, pos) == peekAhead(input, pos, 1)

\* input.slice(start, end) as a string: the characters from start up to end - 1
RECURSIVE Slice(_, _, _)
Slice(input, start, end) ==
    IF start >= end \/ start > Len(input) THEN ""
    ELSE input[start] \o Slice(input, start + 1, end)

skipWhitespace(input, pos) ==
    LET RECURSIVE Skip(_)
        Skip(p) == IF p <= Len(input) /\ isWhitespace(input[p]) THEN Skip(p + 1) ELSE p
    IN Skip(pos)

\* The value of a digit string in a radix (parseInt); 0 for no digits (NaN).
HexDigitValue(ch) ==
    CASE ch \in {"a", "A"} -> 10 [] ch \in {"b", "B"} -> 11 [] ch \in {"c", "C"} -> 12
      [] ch \in {"d", "D"} -> 13 [] ch \in {"e", "E"} -> 14 [] ch \in {"f", "F"} -> 15
      [] OTHER -> CHOOSE n \in 0..9 : ToString(n) = ch

parseInt(digits, radix) ==
    LET RECURSIVE Value(_, _)
        Value(i, acc) ==
            IF i > Len(digits) THEN acc
            ELSE Value(i + 1, acc * radix + HexDigitValue(digits[i]))
    IN Value(1, 0)

\* String.fromCharCode for the codes of the characters the model names.
fromCharCode(code) ==
    CASE code = 34 -> "\"" [] code = 52 -> "4" [] code = 65 -> "A" [] code = 97 -> "a"
      [] code = 98 -> "b" [] code = 123 -> "{" [] code = 125 -> "}"
      [] OTHER -> "\\u" \o ToString(code)

\* \uXXXX and \xXX: length hex digits from pos
parseUnicodeEscape(input, pos, length, message, code) ==
    LET RECURSIVE Read(_, _)
        Read(p, hex) ==
            IF Len(hex) = length
            THEN [ok |-> TRUE, str |-> fromCharCode(parseInt(hex, 16)), pos |-> p]
            ELSE IF p > Len(input) \/ ~isHexDigit(input[p])
            THEN Throw(LexerError(message, code, p - 1))
            ELSE Read(p + 1, Append(hex, input[p]))
    IN Read(pos, <<>>)

\* The character after a backslash, at pos (the caller has checked it is there).
parseEscapeSequence(input, pos) ==
    LET ch == input[pos]
        Char(s) == [ok |-> TRUE, str |-> s, pos |-> pos + 1]
    IN IF pos > Len(input)
       THEN Throw(LexerError("Unexpected end of input in escape sequence",
                             "INVALID_ESCAPE", pos - 1))
       ELSE CASE ch = "b" -> Char("\\b")
              [] ch = "f" -> Char("\f")
              [] ch = "n" -> Char("\n")
              [] ch = "r" -> Char("\r")
              [] ch = "t" -> Char("\t")
              [] ch = "v" -> Char("\\v")
              [] ch = "0" -> Char("\\0")
              [] ch = "u" -> parseUnicodeEscape(input, pos + 1, 4,
                                 "Invalid unicode escape sequence", "INVALID_UNICODE_ESCAPE")
              [] ch = "x" -> parseUnicodeEscape(input, pos + 1, 2,
                                 "Invalid hex escape sequence", "INVALID_HEX_ESCAPE")
              [] ch = "\n" -> Char("")
              [] ch = "\r" -> [ok |-> TRUE, str |-> "",
                               pos |-> IF peek(input, pos + 1) = "\n" THEN pos + 2 ELSE pos + 1]
              [] OTHER -> Char(ch)

scanString(input, pos, quote, depth) ==
    LET RECURSIVE Loop(_, _, _)
        Loop(p, value, escaped) ==
            IF p > Len(input)
            THEN Throw(LexerError("Unterminated string", "UNTERMINATED_STRING", p - 1))
            ELSE IF escaped
            THEN LET esc == parseEscapeSequence(input, p)
                 IN IF esc.ok THEN Loop(esc.pos, value \o esc.str, FALSE) ELSE esc
            ELSE IF input[p] = "\\" THEN Loop(p + 1, value, TRUE)
            ELSE IF input[p] = quote
            THEN Scanned("String", Str(value), Slice(input, pos, p + 1), p + 1, depth)
            ELSE IF input[p] = "\n"
            THEN Throw(LexerError("Unterminated string", "UNTERMINATED_STRING", p - 1))
            ELSE Loop(p + 1, value \o input[p], FALSE)
    IN Loop(pos + 1, "", FALSE)

\* The text of a template from pos to the next ${ or backtick: scanTemplateLiteral
\* (head = TRUE, pos after the opening backtick) and scanTemplateMiddleOrTail.
scanTemplateText(input, start, pos, depth, head) ==
    LET RECURSIVE Loop(_, _)
        Loop(p, value) ==
            IF p > Len(input)
            THEN Throw(LexerError("Unterminated template literal",
                                  "UNTERMINATED_TEMPLATE", p - 1))
            ELSE IF input[p] = "$" /\ peekNext(input, p) = "{"
            THEN Scanned(IF head THEN "TemplateHead" ELSE "TemplateMiddle",
                         Str(value), Slice(input, start, p + 2),
                         p + 2, IF head THEN depth + 1 ELSE depth)
            ELSE IF input[p] = Backtick
            THEN Scanned(IF head THEN "TemplateLiteral" ELSE "TemplateTail",
                         Str(value), Slice(input, start, p + 1),
                         p + 1, IF head THEN depth ELSE depth - 1)
            ELSE IF input[p] = "\\"
            THEN IF p + 1 > Len(input) THEN Loop(p + 1, value)
                 ELSE LET esc == parseEscapeSequence(input, p + 1)
                      IN IF esc.ok THEN Loop(esc.pos, value \o esc.str) ELSE esc
            ELSE Loop(p + 1, value \o input[p])
    IN Loop(pos, "")

scanTemplateLiteral(input, pos, depth) == scanTemplateText(input, pos, pos + 1, depth, TRUE)

\* scanTemplateMiddleOrTail that leaves templateDepth as it is at the closing
\* backtick too.
scanTemplateMiddleOrTailKeepDepth(input, pos, depth) ==
    [scanTemplateText(input, pos, pos, depth, FALSE) EXCEPT !.depth = depth]

\* pos is after the } that closed the interpolation
scanTemplateMiddleOrTail(input, pos, depth) == scanTemplateText(input, pos, pos, depth, FALSE)

\* Infinity and NaN, and their negatives: numbers that are no integers
Infinity == [t |-> "num", special |-> "Infinity"]
NegInfinity == [t |-> "num", special |-> "-Infinity"]
NaN == [t |-> "num", special |-> "NaN"]

scanIdentifierOrKeyword(input, pos, depth) ==
    LET RECURSIVE End(_)
        End(p) == IF p <= Len(input) /\ isIdentifierPart(input[p]) THEN End(p + 1) ELSE p
        end == End(pos)
        value == Slice(input, pos, end)
    IN CASE value = "true" -> Scanned("True", Bool(TRUE), value, end, depth)
         [] value = "false" -> Scanned("False", Bool(FALSE), value, end, depth)
         [] value = "null" -> Scanned("Null", Null, value, end, depth)
         [] value = "Infinity" -> Scanned("Infinity", Infinity, value, end, depth)
         [] value = "NaN" -> Scanned("NaN", NaN, value, end, depth)
         [] OTHER -> Scanned("Identifier", Str(value), value, end, depth)

scanLineComment(input, pos, depth) ==
    LET RECURSIVE End(_)
        End(p) == IF p <= Len(input) /\ input[p] # "\n" THEN End(p + 1) ELSE p
        end == End(pos + 2)
    IN Scanned("LineComment", Str(Slice(input, pos + 2, end)), Slice(input, pos, end),
               end, depth)

\* The loop ends at the first */ after the opening, or at the end of the input;
\* the input then counts as terminated when its last two characters are * and /.
scanBlockComment(input, pos, depth) ==
    LET RECURSIVE Close(_)
        Close(p) ==
            IF p > Len(input) THEN [stop |-> p, end |-> p]
            ELSE IF input[p] = "*" /\ peekNext(input, p) = "/" THEN [stop |-> p, end |-> p + 2]
            ELSE Close(p + 1)
        c == Close(pos + 2)
    IN IF c.end > Len(input) /\ (input[c.end - 1] # "/" \/ input[c.end - 2] # "*")
       THEN Throw(LexerError("Unterminated block comment", "UNTERMINATED_COMMENT", pos - 1))
       ELSE Scanned("BlockComment", Str(Slice(input, pos + 2, c.stop)),
                    Slice(input, pos, c.end), c.end, depth)

-----------------------------------------------------------------------------
(* Number literals.  A number whose value is an integer is Num(n); BigInt(n) *)
(* is a bigint; Float(text) is a number that is no integer, known by its     *)
(* decimal expansion.                                                        *)

BigInt(n) == [t |-> "bigint", n |-> n]
Float(text) == [t |-> "num", text |-> text]

\* An integer wider than the integers of the model (more than 9 decimal
\* digits) is held by its decimal digits dec (a sequence of characters with no
\* leading zero) and its sign: as a number it is the double nearest to that
\* integer, as a bigint the integer itself.
FitsInt(dec) == Len(dec) <= 9

\* The decimal digits, least significant first, of n * m + a for the number n
\* with the decimal digits ds
RECURSIVE MulAdd(_, _, _)
MulAdd(ds, m, a) ==
    IF ds = <<>>
    THEN IF a = 0 THEN <<>> ELSE <<a % 10>> \o MulAdd(<<>>, m, a \div 10)
    ELSE <<(ds[1] * m + a) % 10>> \o MulAdd(Tail(ds), m, (ds[1] * m + a) \div 10)

\* most significant first, as characters
Reversed(le) == IF le = <<>> THEN <<"0">> ELSE [i \in 1..Len(le) |-> ToString(le[Len(le) + 1 - i])]

\* The exact value of a digit string in a radix, as decimal digits.  The
\* digits are taken a few at a time (as many as keep radix^c within the
\* integers of the model): the value of the first i digits is the value of
\* the first i - c times radix^c, plus the value of the next c.
ToDecimal(digits, radix) ==
    LET k == CASE radix = 2 -> 16 [] radix = 8 -> 5 [] OTHER -> 4
        RECURSIVE Power(_)
        Power(c) == IF c = 0 THEN 1 ELSE radix * Power(c - 1)
        RECURSIVE Value(_)
        Value(i) ==
            IF i <= 0 THEN <<>>
            ELSE IF i <= k THEN MulAdd(<<>>, 1, parseInt(SubSeq(digits, 1, i), radix))
            ELSE MulAdd(Value(i - k), Power(k),
                        parseInt(SubSeq(digits, i - k + 1, i), radix))
    IN Reversed(Value(Len(digits)))

\* a > b for two integers given by their decimal digits
Greater(a, b) ==
    \/ Len(a) > Len(b)
    \/ /\ Len(a) = Len(b)
       /\ \E i \in 1..Len(a) :
              /\ HexDigitValue(a[i]) > HexDigitValue(b[i])
              /\ \A j \in 1..(i - 1) : a[j] = b[j]

\* The number (a double) with the decimal digits dec
Integer(isNegative, dec) ==
    IF FitsInt(dec)
    THEN Num(IF isNegative THEN -parseInt(dec, 10) ELSE parseInt(dec, 10))
    ELSE [t |-> "num", neg |-> isNegative, int |-> dec]

\* The bigint with the decimal digits dec
BigInteger(isNegative, dec) ==
    IF FitsInt(dec)
    THEN BigInt(IF isNegative THEN -parseInt(dec, 10) ELSE parseInt(dec, 10))
    ELSE [t |-> "bigint", neg |-> isNegative, int |-> dec]

\* BigInt(text) of the runtime for the text of an integer literal: decimal
\* digits with an optional sign, or a radix prefix and digits with no sign.
StringToBigInt(text) ==
    LET neg == text # <<>> /\ text[1] = "-"
        body == IF neg THEN Tail(text) ELSE text
        prefixed == Len(body) > 2 /\ body[1] = "0" /\ ~isDigit(body[2])
        radix == CASE body[2] \in {"x", "X"} -> 16 [] body[2] \in {"o", "O"} -> 8
                   [] OTHER -> 2
    IN IF prefixed /\ neg
       THEN Throw(SyntaxError("Cannot convert " \o Text(text) \o " to a BigInt"))
       ELSE IF prefixed THEN Ok(BigInteger(FALSE, ToDecimal(SubSeq(body, 3, Len(body)), radix)))
       ELSE Ok(BigInteger(neg, ToDecimal(body, 10)))

isBinaryDigit(ch) == ch \in {"0", "1"}
isOctalDigit(ch) == ch \in {"0", "1", "2", "3", "4", "5", "6", "7"}

\* The digit test of the scanner of a radix
isDigitOf(ch, radix) ==
    CASE radix = 16 -> isHexDigit(ch)
      [] radix = 2 -> isBinaryDigit(ch)
      [] radix = 8 -> isOctalDigit(ch)
      [] OTHER -> isDigit(ch)

\* The digit loop every number scanner runs: digits of the radix, with _ between
\* them.  had is hasDigits on entry; needPrior is whether a separator needs a
\* digit before it (it does everywhere but in the fraction of a decimal).
DigitRun(input, pos, radix, had, needPrior, opts) ==
    LET RECURSIVE Loop(_, _, _)
        Loop(p, digits, has) ==
            IF p > Len(input) THEN [ok |-> TRUE, digits |-> digits, pos |-> p, has |-> has]
            ELSE IF isDigitOf(input[p], radix) THEN Loop(p + 1, Append(digits, input[p]), TRUE)
            ELSE IF input[p] = "_"
            THEN IF ~opts.allowNumericSeparators
                 THEN Throw(LexerError("Numeric separators not allowed in this year",
                                       "INVALID_SEPARATOR", p - 1))
                 ELSE IF (needPrior /\ ~has) \/ ~isDigitOf(peek(input, p + 1), radix)
                 THEN Throw(LexerError("Invalid numeric separator position",
                                       "INVALID_SEPARATOR", p))
                 ELSE Loop(p + 1, digits, has)
            ELSE [ok |-> TRUE, digits |-> digits, pos |-> p, has |-> has]
    IN Loop(pos, <<>>, had)

\* The end of a literal whose digits stop at pos: the n suffix, the raw text and
\* the token.  BigInt(text) of a text with a sign and a radix prefix is a
\* SyntaxError of the runtime.
FinishInteger(input, pos, start, isNegative, opts, depth, digits, radix, prefix) ==
    LET hasBigIntSuffix == peek(input, pos) = "n"
        end == IF hasBigIntSuffix THEN pos + 1 ELSE pos
        numValue == ToDecimal(digits, radix)
    IN IF hasBigIntSuffix /\ ~opts.allowBigInt
       THEN Throw(LexerError("BigInt literals not allowed in this year",
                             "INVALID_BIGINT", pos - 1))
       ELSE IF hasBigIntSuffix /\ isNegative /\ prefix # ""
       THEN Throw(SyntaxError("Cannot convert -" \o prefix
                              \o Slice(digits, 1, Len(digits) + 1) \o " to a BigInt"))
       ELSE IF hasBigIntSuffix
       THEN Scanned("BigInt", BigInteger(isNegative, numValue),
                    Slice(input, start, end), end, depth)
       ELSE Scanned("Number", Integer(isNegative, numValue),
                    Slice(input, start, end), end, depth)

\* scanHexNumber, scanBinaryNumber and scanOctalNumber but for their digits
scanPrefixedNumber(input, pos, start, isNegative, opts, depth, radix, prefix, message, code) ==
    LET run == DigitRun(input, pos, radix, FALSE, TRUE, opts)
    IN IF ~run.ok THEN run
       ELSE IF ~run.has THEN Throw(LexerError(message, code, run.pos - 1))
       ELSE FinishInteger(input, run.pos, start, isNegative, opts, depth,
                          run.digits, radix, prefix)

scanHexNumber(input, pos, start, isNegative, opts, depth) ==
    scanPrefixedNumber(input, pos, start, isNegative, opts, depth, 16, "0x",
                       "Hex literal must have at least one digit", "INVALID_HEX")

scanBinaryNumber(input, pos, start, isNegative, opts, depth) ==
    scanPrefixedNumber(input, pos, start, isNegative, opts, depth, 2, "0b",
                       "Binary literal must have at least one digit", "INVALID_BINARY")

scanOctalNumber(input, pos, start, isNegative, opts, depth) ==
    scanPrefixedNumber(input, pos, start, isNegative, opts, depth, 8, "0o",
                       "Octal literal must have at least one digit", "INVALID_OCTAL")

\* 10^k
RECURSIVE Pow10(_)
Pow10(k) == IF k = 0 THEN 1 ELSE 10 * Pow10(k - 1)

RECURSIVE Zeros(_)
Zeros(k) == IF k <= 0 THEN "" ELSE "0" \o Zeros(k - 1)

\* The number with the decimal digits `digits` (no zero at either end) times
\* 10^e: an integer, or a decimal expansion.
Decimal(isNegative, digits, e) ==
    IF e >= 0
    THEN Integer(isNegative, digits \o [i \in 1..e |-> "0"])
    ELSE IF Len(digits) + e > 0
    THEN Float((IF isNegative THEN "-" ELSE "") \o Slice(digits, 1, Len(digits) + e + 1)
                   \o "." \o Slice(digits, Len(digits) + e + 1, Len(digits) + 1))
    ELSE Float((IF isNegative THEN "-" ELSE "") \o "0." \o Zeros(-(Len(digits) + e))
                   \o Slice(digits, 1, Len(digits) + 1))

Significant(isNegative, all, e, first, last) ==
    Decimal(isNegative, SubSeq(all, first, last), e + Len(all) - last)

\* The number with the decimal digits `all` times 10^e
Scaled(isNegative, all, e) ==
    IF \A i \in DOMAIN all : all[i] = "0" THEN Num(0)
    ELSE Significant(isNegative, all, e,
                     CHOOSE i \in DOMAIN all :
                         all[i] # "0" /\ \A j \in 1..(i - 1) : all[j] = "0",
                     CHOOSE i \in DOMAIN all :
                         all[i] # "0" /\ \A j \in (i + 1)..Len(all) : all[j] = "0")

\* parseFloat of a sign, integer digits, fraction digits and an exponent
parseFloat(isNegative, int, frac, exponent) ==
    Scaled(isNegative, int \o frac, exponent - Len(frac))

\* scanDecimalNumber from the n suffix on; exp is the run of exponent digits
DecimalSuffix(input, start, isNegative, opts, depth, int, frac, hasDecimalPoint, hasExponent, expNegative, exp) ==
    IF ~exp.ok THEN exp
    ELSE IF hasExponent /\ ~exp.has
    THEN Throw(LexerError("Exponent must have at least one digit",
                          "INVALID_EXPONENT", exp.pos - 1))
    ELSE IF peek(input, exp.pos) = "n" /\ opts.allowBigInt /\ (hasDecimalPoint \/ hasExponent)
    THEN Throw(LexerError("BigInt cannot have decimal point or exponent",
                          "INVALID_BIGINT", exp.pos - 1))
    ELSE IF peek(input, exp.pos) = "n"
    THEN FinishInteger(input, exp.pos, start, isNegative, opts, depth, int, 10, "")
    ELSE Scanned("Number",
                 parseFloat(isNegative, int, frac,
                            IF expNegative THEN -parseInt(exp.digits, 10)
                            ELSE parseInt(exp.digits, 10)),
                 Slice(input, start, exp.pos), exp.pos, depth)

\* scanDecimalNumber from the exponent on; at is where the fraction ended
DecimalExponent(input, start, isNegative, opts, depth, int, frac, hasDecimalPoint, at) ==
    DecimalSuffix(input, start, isNegative, opts, depth, int, frac, hasDecimalPoint,
                  peek(input, at) \in {"e", "E"},
                  peek(input, at) \in {"e", "E"} /\ peek(input, at + 1) = "-",
                  IF peek(input, at) \in {"e", "E"}
                  THEN DigitRun(input,
                                IF peek(input, at + 1) \in {"+", "-"} THEN at + 2 ELSE at + 1,
                                10, FALSE, TRUE, opts)
                  ELSE [ok |-> TRUE, digits |-> <<>>, pos |-> at, has |-> FALSE])

\* scanDecimalNumber from the decimal point on; frac is the run of fraction
\* digits, or the integer run when there is no decimal point
DecimalFraction(input, start, isNegative, opts, depth, int, hasDecimalPoint, frac) ==
    IF ~frac.ok THEN frac
    ELSE DecimalExponent(input, start, isNegative, opts, depth, int,
                         IF hasDecimalPoint THEN frac.digits ELSE <<>>, hasDecimalPoint,
                         frac.pos)

\* scanDecimalNumber after the integer part, the run int
DecimalPoint(input, start, isNegative, opts, depth, int) ==
    IF ~int.ok THEN int
    ELSE DecimalFraction(input, start, isNegative, opts, depth, int.digits,
                         peek(input, int.pos) = ".",
                         IF peek(input, int.pos) = "."
                         THEN DigitRun(input, int.pos + 1, 10, int.has, FALSE, opts)
                         ELSE int)

\* start is where the literal began; pos is where the lexer is now, which is
\* past the digits scanLegacyOctalNumber consumed when it hands over.
scanDecimalNumber(input, pos, start, isNegative, opts, depth) ==
    DecimalPoint(input, start, isNegative, opts, depth,
                 DigitRun(input, pos, 10, FALSE, TRUE, opts))

\* pos is after the leading 0
scanLegacyOctalNumber(input, pos, start, isNegative, opts, depth) ==
    LET RECURSIVE Loop(_, _)
        Loop(p, digits) ==
            IF p <= Len(input) /\ isOctalDigit(input[p])
            THEN Loop(p + 1, Append(digits, input[p]))
            ELSE IF p <= Len(input) /\ isDigit(input[p])
            THEN scanDecimalNumber(input, p, start, isNegative, opts, depth)
            ELSE FinishInteger(input, p, start, isNegative, opts, depth, digits, 8, "0o")
    IN Loop(pos, <<>>)

scanNumber(input, pos, opts, depth) ==
    LET isNegative == peek(input, pos) = "-"
        isPositive == peek(input, pos) = "+"
        p == IF isNegative \/ isPositive THEN pos + 1 ELSE pos
        next == peekNext(input, p)
        NotAllowed(what) ==
            Throw(LexerError(what \o " literals not allowed in this year",
                             "INVALID_LITERAL", p - 1))
    IN IF peek(input, p) = "0" /\ next \in {"x", "X"}
       THEN IF ~opts.allowHexLiterals THEN NotAllowed("Hexadecimal")
            ELSE scanHexNumber(input, p + 2, pos, isNegative, opts, depth)
       ELSE IF peek(input, p) = "0" /\ next \in {"b", "B"}
       THEN IF ~opts.allowBinaryOctalLiterals THEN NotAllowed("Binary")
            ELSE scanBinaryNumber(input, p + 2, pos, isNegative, opts, depth)
       ELSE IF peek(input, p) = "0" /\ next \in {"o", "O"}
       THEN IF ~opts.allowBinaryOctalLiterals THEN NotAllowed("Octal")
            ELSE scanOctalNumber(input, p + 2, pos, isNegative, opts, depth)
       ELSE IF peek(input, p) = "0" /\ isDigit(next)
       THEN IF opts.strictOctal
            THEN Throw(LexerError("Legacy octal literals require 0o prefix in strict mode",
                                  "INVALID_OCTAL", p - 1))
            ELSE scanLegacyOctalNumber(input, p + 1, pos, isNegative, opts, depth)
       ELSE scanDecimalNumber(input, p, pos, isNegative, opts, depth)

-----------------------------------------------------------------------------
(* Lexer.nextToken and Lexer.tokenize *)

Punctuation == {"{", "[", "]", ":", ","}

\* The token at pos (pos is not past the end and not at whitespace).
nextToken(input, pos, opts, depth) ==
    LET ch == peek(input, pos)
        next == peekNext(input, pos)
        signedNumber == isDigit(next) \/ (next = "." /\ isDigit(peekAhead(input, pos, 2)))
        keyword == scanIdentifierOrKeyword(input, pos + 1, depth)
    IN CASE ch = "/" /\ next \in {"/", "*"} ->
              IF opts.mode = "json"
              THEN Throw(LexerError("Comments not allowed in JSON mode",
                                    "COMMENTS_NOT_ALLOWED", pos - 1))
              ELSE IF next = "/" THEN scanLineComment(input, pos, depth)
              ELSE scanBlockComment(input, pos, depth)
         [] ch \in {"\"", "'"} -> scanString(input, pos, ch, depth)
         [] ch = Backtick /\ opts.allowTemplateLiterals -> scanTemplateLiteral(input, pos, depth)
         [] \/ isDigit(ch)
            \/ ch = "." /\ isDigit(next)
            \/ ch \in {"-", "+"} /\ signedNumber -> scanNumber(input, pos, opts, depth)
         [] ch = "-" /\ ~signedNumber /\ next \in {"I", "N"} ->
              IF keyword.token.type = "Infinity"
              THEN Scanned("Number", NegInfinity, "-" \o keyword.token.raw, keyword.pos, depth)
              ELSE IF keyword.token.type = "NaN"
              THEN Scanned("Number", NaN, "-" \o keyword.token.raw, keyword.pos, depth)
              ELSE Throw(LexerError("Unexpected identifier after minus: "
                                        \o ToStr(keyword.token.value),
                                    "UNEXPECTED_TOKEN", keyword.pos - 1))
         [] ch = "}" /\ depth > 0 -> scanTemplateMiddleOrTail(input, pos + 1, depth)
         [] ch = "}" /\ depth <= 0 -> Scanned("}", Str("}"), "}", pos + 1, depth)
         [] ch \in Punctuation -> Scanned(ch, Str(ch), ch, pos + 1, depth)
         [] ch = "." /\ ~isDigit(next) -> Scanned(".", Str("."), ".", pos + 1, depth)
         [] isIdentifierStart(ch) ->
              IF ch = "_" /\ isDigit(next)
              THEN Throw(LexerError("Numeric literal cannot start with underscore",
                                    "INVALID_SEPARATOR", pos - 1))
              ELSE scanIdentifierOrKeyword(input, pos, depth)
         [] OTHER -> Throw(LexerError("Unexpected character: '" \o ch \o "'",
                                      "UNEXPECTED_CHARACTER", pos - 1))

\* Lexer.tokenize: every token of the input, then EOF; or the first error.
tokenize(input, opts) ==
    LET Located(token) ==
            [type |-> token.type, value |-> token.value, raw |-> token.raw,
             offset |-> token.offset,
             chars |-> SubSeq(input, token.offset + 1, token.offset + Len(token.raw)),
             line |-> startPos(input, token).line,
             column |-> startPos(input, token).column]
        EOF(p) == Located(createToken("EOF", Null, "", p))
        RECURSIVE Loop(_, _, _), Push(_, _)
        Loop(pos, depth, toks) ==
            IF skipWhitespace(input, pos) > Len(input)
            THEN Ok(Append(toks, EOF(skipWhitespace(input, pos))))
            ELSE Push(nextToken(input, skipWhitespace(input, pos), opts, depth), toks)
        Push(scanned, toks) ==
            IF ~scanned.ok THEN scanned
            ELSE Loop(scanned.pos, scanned.depth,
                      IF /\ scanned.token.type \in {"LineComment", "BlockComment"}
                         /\ ~opts.preserveComments
                      THEN toks
                      ELSE Append(toks, Located(scanned.token)))
    IN Loop(1, 0, <<>>)

-----------------------------------------------------------------------------
(* The parser: src/src/parser.mts.  The state of a Parser is the record ps:  *)
(* tokens, current (an index from 1), errors and the tolerant option.  An    *)
(* operation that returns a node returns [node, ps].                         *)

getTokenTypeName(type) ==
    CASE type = "String" -> "STRING" [] type = "Number" -> "NUMBER"
      [] type = "True" -> "TRUE" [] type = "False" -> "FALSE" [] type = "Null" -> "NULL"
      [] type = "{" -> "LBRACE" [] type = "}" -> "RBRACE"
      [] type = "[" -> "LBRACKET" [] type = "]" -> "RBRACKET"
      [] type = ":" -> "COLON" [] type = "," -> "COMMA" [] type = "." -> "DOT"
      [] type = "Identifier" -> "IDENTIFIER"
      [] type = "Infinity" -> "INFINITY" [] type = "NaN" -> "NAN"
      [] type = "LineComment" -> "LINE_COMMENT" [] type = "BlockComment" -> "BLOCK_COMMENT"
      [] type = "TemplateLiteral" -> "TEMPLATE_LITERAL"
      [] type = "TemplateHead" -> "TEMPLATE_HEAD"
      [] type = "TemplateMiddle" -> "TEMPLATE_MIDDLE"
      [] type = "TemplateTail" -> "TEMPLATE_TAIL"
      [] type = "BigInt" -> "BIGINT" [] type = "EOF" -> "EOF"
      [] OTHER -> "UNKNOWN"

ParseError(message, token) ==
    [message |-> message, offset |-> token.offset, line |-> token.line,
     column |-> token.column, code |-> "PARSE_ERROR"]

Parsed(node, ps) == [node |-> node, ps |-> ps]

\* Parser.peek
peekToken(ps) == ps.tokens[ps.current]

isAtEnd(ps) == peekToken(ps).type = "EOF"

check(ps, type) == ~isAtEnd(ps) /\ peekToken(ps).type = type

\* The parser after advance(); the token advance returns is peekToken(ps)
\* when ps is not at the end.
advance(ps) == IF ~isAtEnd(ps) THEN [ps EXCEPT !.current = @ + 1] ELSE ps

addError(ps, message, token) ==
    IF ps.thrown # NoError THEN ps
    ELSE IF ~ps.tolerant /\ Len(ps.errors) > 0 THEN ps
    ELSE [ps EXCEPT !.errors = Append(@, ParseError(message, token))]

\* The parser after expect(type); the token expect returns is peekToken(ps),
\* consumed or not.
expect(ps, type) ==
    IF check(ps, type) THEN advance(ps)
    ELSE addError(ps, "Expected " \o getTokenTypeName(type) \o ", got "
                          \o getTokenTypeName(peekToken(ps).type), peekToken(ps))

\* skipComments that takes commas for comments too.
RECURSIVE skipCommentsAndCommas(_)
skipCommentsAndCommas(ps) ==
    IF ~isAtEnd(ps) /\ peekToken(ps).type \in {"LineComment", "BlockComment", ","}
    THEN skipCommentsAndCommas(advance(ps))
    ELSE ps

RECURSIVE skipComments(_)
skipComments(ps) ==
    IF ~isAtEnd(ps) /\ peekToken(ps).type \in {"LineComment", "BlockComment"}
    THEN skipComments(advance(ps))
    ELSE ps

LiteralTokens == {"String", "Number", "BigInt", "True", "False", "Null", "Infinity", "NaN"}

\* Number.MAX_SAFE_INTEGER, 2^53 - 1, by its decimal digits
MAX_SAFE_INTEGER ==
    <<"9", "0", "0", "7", "1", "9", "9", "2", "5", "4", "7", "4", "0", "9", "9", "1">>

\* The test of lines 192-198 on a NUMBER token: the value is a finite integer
\* outside the safe range (a number of the model with the field n is inside
\* it), and the raw text has no "." and no e or E.
OutsideSafeRange(token) ==
    /\ token.type = "Number"
    /\ "int" \in DOMAIN token.value
    /\ Greater(token.value.int, MAX_SAFE_INTEGER)
    /\ \A i \in DOMAIN token.chars : token.chars[i] \notin {".", "e", "E"}

\* The literal of lines 206-207: BigInt(token.raw.replace(/[_+]/g, "")); an
\* exception of BigInt leaves the parser (the parser state keeps it in thrown,
\* and what the model computes after it is dropped by ParserParse).
autoBigInt(token, ps, converted) ==
    IF converted.ok THEN Parsed(Literal(converted.value), ps)
    ELSE Parsed(Literal(Null),
                IF ps.thrown = NoError THEN [ps EXCEPT !.thrown = converted.error] ELSE ps)

\* Called with a literal token ahead.
parseLiteral(ps) ==
    LET token == peekToken(ps)
    IN IF token.type \notin LiteralTokens
       THEN Parsed(Literal(Null),
                   addError(advance(ps), "Expected literal, got "
                                \o getTokenTypeName(token.type), token))
       ELSE IF ~OutsideSafeRange(token) THEN Parsed(Literal(token.value), advance(ps))
       ELSE IF ps.strictBigInt
       THEN Parsed(Literal(token.value),
                   addError(advance(ps),
                            "Integer " \o ToStr(token.value)
                                \o " is outside safe integer range. Use BigInt suffix 'n'",
                            token))
       ELSE autoBigInt(token, advance(ps),
                       StringToBigInt(SelectSeq(token.chars, LAMBDA c : c \notin {"_", "+"})))

\* The name an identifier node takes from a token: token.value, which is a
\* string for an IDENTIFIER token (another value is written as a string).
NameOf(token) == ToStr(token.value)

parseIdentifier(ps) ==
    LET RECURSIVE Members(_, _)
        Members(s, node) ==
            IF check(s, ".")
            THEN LET propertyToken == peekToken(advance(s))
                 IN Members(expect(advance(s), "Identifier"),
                            MemberExpression(node, NameOf(propertyToken)))
            ELSE Parsed(node, s)
    IN Members(expect(ps, "Identifier"), Identifier(NameOf(peekToken(ps))))

RECURSIVE parseValue(_), parseObject(_), parseProperty(_), parseArray(_)
RECURSIVE parseTemplateLiteral(_)

parseValue(ps) ==
    LET token == peekToken(ps)
    IN CASE token.type \in LiteralTokens -> parseLiteral(ps)
         [] token.type = "{" -> parseObject(ps)
         [] token.type = "[" -> parseArray(ps)
         [] token.type = "Identifier" -> parseIdentifier(ps)
         [] token.type \in {"TemplateLiteral", "TemplateHead"} -> parseTemplateLiteral(ps)
         [] OTHER ->
              Parsed(Literal(Null),
                     advance(addError(ps, "Unexpected token: "
                                          \o getTokenTypeName(token.type), token)))

parseObject(ps) ==
    LET Close(s, properties) == Parsed(ObjectExpression(properties), expect(s, "}"))
        RECURSIVE Properties(_, _), Separator(_, _), AfterComma(_, _)
        Properties(s, properties) ==
            IF check(s, "}") \/ isAtEnd(s) THEN Close(s, properties)
            ELSE Separator(parseProperty(s), properties)
        \* after a property, with the comments behind it still ahead
        Separator(property, properties) ==
            IF check(skipComments(property.ps), ",")
            THEN AfterComma(skipComments(advance(skipComments(property.ps))),
                            Append(properties, property.node))
            ELSE IF ~check(skipComments(property.ps), "}")
            THEN Close(addError(skipComments(property.ps), "Expected ',' or '}' in object",
                                peekToken(skipComments(property.ps))),
                       Append(properties, property.node))
            ELSE Properties(skipComments(property.ps), Append(properties, property.node))
        AfterComma(s, properties) ==
            IF check(s, "}") THEN Close(s, properties) ELSE Properties(s, properties)
    IN Properties(skipComments(expect(ps, "{")), <<>>)

\* The key of a property and the parser after it
parseKey(ps, keyToken) ==
    CASE keyToken.type = "String" ->
           [key |-> ToStr(parseLiteral(ps).node.value), ps |-> parseLiteral(ps).ps]
      [] keyToken.type = "Identifier" -> [key |-> ToStr(keyToken.value), ps |-> advance(ps)]
      [] keyToken.type \in {"Number", "BigInt"} ->
           [key |-> ToStr(parseLiteral(ps).node.value), ps |-> parseLiteral(ps).ps]
      [] keyToken.type \in {"True", "False", "Null", "Infinity", "NaN"} ->
           [key |-> keyToken.raw, ps |-> advance(ps)]
      [] OTHER ->
           [key |-> "error",
            ps |-> advance(addError(ps, "Expected property key, got "
                                        \o getTokenTypeName(keyToken.type), keyToken))]

parseProperty(ps) ==
    LET Keyed(key, value) == Parsed(Property(key, value.node), value.ps)
        Value(keyed) == Keyed(keyed.key, parseValue(expect(keyed.ps, ":")))
    IN Value(parseKey(ps, peekToken(ps)))

parseArray(ps) ==
    LET Close(s, elements) == Parsed(ArrayExpression(elements), expect(s, "]"))
        RECURSIVE Elements(_, _), Separator(_, _), AfterComma(_, _)
        Elements(s, elements) ==
            IF check(s, "]") \/ isAtEnd(s) THEN Close(s, elements)
            ELSE Separator(parseValue(s), elements)
        \* after an element, with the comments behind it still ahead
        Separator(element, elements) ==
            IF check(skipComments(element.ps), ",")
            THEN AfterComma(skipComments(advance(skipComments(element.ps))),
                            Append(elements, element.node))
            ELSE IF ~check(skipComments(element.ps), "]")
            THEN Close(addError(skipComments(element.ps), "Expected ',' or ']' in array",
                                peekToken(skipComments(element.ps))),
                       Append(elements, element.node))
            ELSE Elements(skipComments(element.ps), Append(elements, element.node))
        AfterComma(s, elements) ==
            IF check(s, "]") THEN Close(s, elements) ELSE Elements(s, elements)
    IN Elements(skipComments(expect(ps, "[")), <<>>)

\* Called with a TEMPLATE_LITERAL or TEMPLATE_HEAD token ahead.
parseTemplateLiteral(ps) ==
    LET Element(quasi) == TemplateElement(ToStr(quasi.value), quasi.type = "TemplateTail")
        RECURSIVE Parts(_, _, _), Quasi(_, _, _)
        Parts(s, quasis, expressions) == Quasi(parseValue(s), quasis, expressions)
        \* after the expression expr
        Quasi(expr, quasis, expressions) ==
            IF peekToken(expr.ps).type = "TemplateMiddle"
            THEN Parts(advance(expr.ps), Append(quasis, Element(peekToken(expr.ps))),
                       Append(expressions, expr.node))
            ELSE IF peekToken(expr.ps).type = "TemplateTail"
            THEN Parsed(TemplateLiteral(Append(quasis, Element(peekToken(expr.ps))),
                                        Append(expressions, expr.node)),
                        advance(expr.ps))
            ELSE Parsed(TemplateLiteral(quasis, Append(expressions, expr.node)),
                        addError(expr.ps, "Expected template middle or template tail",
                                 peekToken(expr.ps)))
    IN IF peekToken(ps).type = "TemplateLiteral"
       THEN Parsed(Literal(peekToken(ps).value), advance(ps))
       ELSE IF peekToken(ps).type # "TemplateHead"
       THEN Parsed(Literal(Str("")),
                   addError(advance(ps), "Expected template literal or template head",
                            peekToken(ps)))
       ELSE Parts(advance(ps), <<TemplateElement(ToStr(peekToken(ps).value), FALSE)>>, <<>>)

\* Parser.parse after tokenizing: the program body and the error list
\* (empty for the undefined the code returns when there is none).
ParserParse(toks, opts) ==
    LET Result(body) ==
            [program |-> body.node,
             thrown |-> body.ps.thrown,
             errors |-> IF ~isAtEnd(body.ps)
                        THEN addError(body.ps, "Unexpected token after root value",
                                      peekToken(body.ps)).errors
                        ELSE body.ps.errors]
    IN Result(parseValue([tokens |-> toks, current |-> 1, errors |-> <<>>,
                          thrown |-> NoError, tolerant |-> opts.tolerant,
                          strictBigInt |-> opts.strictBigInt]))

-----------------------------------------------------------------------------
(* The evaluator: src/src/parser.mts *)

\* A loop bound one short of the one in evaluate.
maxPassesShort == 3 - 1

maxPasses == 3

isUnresolved(value) ==
    /\ Truthy(value)
    /\ TypeofObject(value)
    /\ GetProp(value, "__UNRESOLVED__") = Bool(TRUE)

RECURSIVE buildMemberPath(_)
buildMemberPath(node) ==
    IF node.type = "MemberExpression"
    THEN Append(buildMemberPath(node.object), node.property.name)
    ELSE IF node.type = "Identifier" THEN <<node.name>> ELSE <<>>

RECURSIVE JoinDots(_)
JoinDots(parts) ==
    IF parts = <<>> THEN ""
    ELSE IF Len(parts) = 1 THEN parts[1]
    ELSE parts[1] \o "." \o JoinDots(Tail(parts))

buildReferencePath(node) ==
    CASE node.type = "Identifier" -> node.name
      [] node.type = "MemberExpression" -> JoinDots(buildMemberPath(node))
      [] OTHER -> "<template>"

createUnresolvedMarker(node, id) ==
    [t |-> "unres", id |-> id, path |-> buildReferencePath(node), node |-> node]

\* obj[key] = v on a plain object: a new key goes last, an old one keeps its place.
ObjSet(obj, key, v) ==
    IF key \in Range(obj.ks)
    THEN [obj EXCEPT !.vs[IndexOf(obj.ks, key)] = v]
    ELSE [obj EXCEPT !.ks = Append(@, key), !.vs = Append(@, v)]

\* Pass 1: the value of a node, every reference a marker.  at is the place of the
\* node in the document; the objects created there get the identity <<"0">> \o at.
RECURSIVE evaluateNodePass1(_, _)
evaluateNodePass1(node, at) ==
    CASE node.type = "Literal" -> node.value
      [] node.type = "ObjectExpression" ->
           LET RECURSIVE Fill(_, _)
               Fill(obj, i) ==
                   IF i > Len(node.properties) THEN obj
                   ELSE LET prop == node.properties[i]
                        IN Fill(ObjSet(obj, prop.key,
                                       evaluateNodePass1(prop.value, Append(at, prop.key))),
                                i + 1)
           IN Fill(Obj(<<"0">> \o at, <<>>, <<>>), 1)
      [] node.type = "ArrayExpression" ->
           Arr(<<"0">> \o at,
               [i \in DOMAIN node.elements |->
                   evaluateNodePass1(node.elements[i], Append(at, ToString(i - 1)))])
      [] OTHER -> createUnresolvedMarker(node, <<"0">> \o at)

\* Walk the path of a member expression from the root object.
resolveMemberExpr(node, rootObj) ==
    LET path == buildMemberPath(node)
        RECURSIVE Walk(_, _)
        Walk(value, i) ==
            IF i > Len(path) THEN value
            ELSE IF value.t \in {"null", "undef"} \/ ~TypeofObject(value) THEN Undef
            ELSE IF ~HasProp(value, path[i]) THEN Undef
            ELSE Walk(GetProp(value, path[i]), i + 1)
    IN Walk(rootObj, 1)

resolveTemplate(node, rootObj) ==
    LET RECURSIVE Build(_, _)
        Build(res, i) ==
            IF i > Len(node.quasis) THEN Str(res)
            ELSE LET withQuasi == res \o node.quasis[i].cooked
                 IN IF i <= Len(node.expressions)
                    THEN LET expr == node.expressions[i]
                             value ==
                                 CASE expr.type = "Identifier" -> GetProp(rootObj, expr.name)
                                   [] expr.type = "MemberExpression" ->
                                        resolveMemberExpr(expr, rootObj)
                                   [] OTHER -> Undef
                         IN IF value = Undef \/ isUnresolved(value)
                            THEN Undef
                            ELSE Build(withQuasi \o ToStr(value), i + 1)
                    ELSE Build(withQuasi, i + 1)
    IN Build("", 1)

\* ref.node of a marker; of an object that only looks like one, its property node.
RefNode(ref) == IF ref.t = "unres" THEN Ast(<<>>, ref.node) ELSE GetProp(ref, "node")

\* tryResolve without its Identifier case: a bare name is never looked up.
tryResolveNoIdentifier(ref, rootObj) ==
    LET n == RefNode(ref)
    IN IF n.t \in {"null", "undef"}
       THEN Throw(TypeError("Cannot read properties of undefined (reading 'type')"))
       ELSE IF n.t # "ast" THEN Ok(Undef)
       ELSE LET node == n.node
            IN CASE node.type = "MemberExpression" -> Ok(resolveMemberExpr(node, rootObj))
                 [] node.type = "TemplateLiteral" -> Ok(resolveTemplate(node, rootObj))
                 [] OTHER -> Ok(Undef)

\* tryResolve that finds a bare name only when its key is declared before the
\* root property the reference stands in.
tryResolveDeclaredBefore(ref, rootObj) ==
    LET n == RefNode(ref)
    IN IF n.t \in {"null", "undef"}
       THEN Throw(TypeError("Cannot read properties of undefined (reading 'type')"))
       ELSE IF n.t # "ast" THEN Ok(Undef)
       ELSE LET node == n.node
            IN CASE node.type = "Identifier" ->
                      IF /\ rootObj.t = "obj" /\ Len(ref.id) > 1
                         /\ node.name \in Range(rootObj.ks) /\ ref.id[2] \in Range(rootObj.ks)
                         /\ IndexOf(rootObj.ks, node.name) > IndexOf(rootObj.ks, ref.id[2])
                      THEN Ok(Undef)
                      ELSE Ok(GetProp(rootObj, node.name))
                 [] node.type = "MemberExpression" -> Ok(resolveMemberExpr(node, rootObj))
                 [] node.type = "TemplateLiteral" -> Ok(resolveTemplate(node, rootObj))
                 [] OTHER -> Ok(Undef)

tryResolve(ref, rootObj) ==
    LET n == RefNode(ref)
    IN IF n.t \in {"null", "undef"}
       THEN Throw(TypeError("Cannot read properties of undefined (reading 'type')"))
       ELSE IF n.t # "ast" THEN Ok(Undef)
       ELSE LET node == n.node
            IN CASE node.type = "Identifier" -> Ok(GetProp(rootObj, node.name))
                 [] node.type = "MemberExpression" -> Ok(resolveMemberExpr(node, rootObj))
                 [] node.type = "TemplateLiteral" -> Ok(resolveTemplate(node, rootObj))
                 [] OTHER -> Ok(Undef)

\* Pass 2-N over a value: [ok, value, changed], or the exception.  The objects it
\* creates at place `at` in pass p get the identity <<p>> \o at.
RECURSIVE resolvePass(_, _, _, _)
resolvePass(value, rootObj, p, at) ==
    IF value.t = "arr"
    THEN LET rs == <<>> \o [i \in DOMAIN value.vs |->
                       resolvePass(value.vs[i], rootObj, p, Append(at, ToString(i - 1)))]
         IN IF \E i \in DOMAIN rs : ~rs[i].ok
            THEN rs[CHOOSE i \in DOMAIN rs : ~rs[i].ok /\ \A j \in 1..(i - 1) : rs[j].ok]
            ELSE [ok |-> TRUE,
                  value |-> Arr(<<ToString(p)>> \o at, [i \in DOMAIN rs |-> rs[i].value]),
                  changed |-> \E i \in DOMAIN rs : rs[i].changed]
    ELSE IF isUnresolved(value)
    THEN LET resolved == tryResolve(value, rootObj)
         IN IF ~resolved.ok THEN resolved
            ELSE IF resolved.value # Undef /\ ~isUnresolved(resolved.value)
            THEN [ok |-> TRUE, value |-> resolved.value, changed |-> TRUE]
            ELSE [ok |-> TRUE, value |-> value, changed |-> FALSE]
    ELSE IF Truthy(value) /\ TypeofObject(value)
    THEN LET ks == OwnKeys(value)
             rs == <<>> \o [i \in DOMAIN ks |->
                       resolvePass(GetOwn(value, ks[i]), rootObj, p, Append(at, ks[i]))]
         IN IF \E i \in DOMAIN rs : ~rs[i].ok
            THEN rs[CHOOSE i \in DOMAIN rs : ~rs[i].ok /\ \A j \in 1..(i - 1) : rs[j].ok]
            ELSE [ok |-> TRUE,
                  value |-> Obj(<<ToString(p)>> \o at, ks, [i \in DOMAIN rs |-> rs[i].value]),
                  changed |-> \E i \in DOMAIN rs : rs[i].changed]
    ELSE [ok |-> TRUE, value |-> value, changed |-> FALSE]

\* The path of the first marker checkUnresolved meets, or "" when there is none.
RECURSIVE FirstUnresolved(_)
FirstUnresolved(value) ==
    IF value.t = "arr" \/ (~isUnresolved(value) /\ Truthy(value) /\ TypeofObject(value))
    THEN LET kids == IF value.t = "arr" THEN value.vs
                     ELSE [i \in DOMAIN OwnKeys(value) |-> GetOwn(value, OwnKeys(value)[i])]
             found == <<>> \o [i \in DOMAIN kids |-> FirstUnresolved(kids[i])]
         IN IF \E i \in DOMAIN found : found[i] # <<>>
            THEN found[CHOOSE i \in DOMAIN found :
                          found[i] # <<>> /\ \A j \in 1..(i - 1) : found[j] = <<>>]
            ELSE <<>>
    ELSE IF isUnresolved(value) THEN <<ToStr(GetProp(value, "path"))>>
    ELSE <<>>

checkUnresolved(value) ==
    LET found == FirstUnresolved(value)
    IN IF found = <<>> THEN Ok(value)
       ELSE Throw(EvalError("Unresolved reference: " \o found[1]
                            \o " (circular reference or undefined)"))

\* The loop of evaluate from pass p on: the value it leaves, or the exception.
RECURSIVE resolveLoop(_, _)
resolveLoop(value, p) ==
    LET Then(r) ==
            IF ~r.ok THEN r
            ELSE IF ~r.changed \/ p = maxPasses THEN Ok(r.value)
            ELSE resolveLoop(r.value, p + 1)
    IN Then(resolvePass(value, value, p, <<>>))

\* evaluate up to the reviver walk: the value handed to applyReviver, or the
\* exception.
evaluate(node, opts) ==
    LET Checked(r) == IF r.ok THEN checkUnresolved(r.value) ELSE r
    IN IF ~opts.allowInternalReferences THEN Ok(evaluateNodePass1(node, <<>>))
       ELSE Checked(resolveLoop(evaluateNodePass1(node, <<>>), 1))

-----------------------------------------------------------------------------
(* The reviver walk: Parser.applyReviver *)

\* The revivers a call runs with: "identity" is the constructor's default
\* (key, value) => value, the others are revivers a caller passes.  The
\* constructor leaves no call without one ("none").
ReviverKinds == {"identity", "dropNumbers", "replaceStrings"}

reviver(kind, key, value) ==
    CASE kind = "dropNumbers" /\ value.t = "num" -> Undef
      [] kind = "replaceStrings" /\ value.t = "str" -> Str("R")
      [] OTHER -> value

\* The walk changes objects in place.  store holds, by identity, the present
\* content of every object the walk has entered; a value of the tree that names
\* such an object stands for that content.
StoreHas(store, id) == \E i \in DOMAIN store : store[i].id = id
StoreGet(store, id) == store[CHOOSE i \in DOMAIN store : store[i].id = id]
StorePut(store, c) ==
    IF StoreHas(store, c.id)
    THEN [i \in DOMAIN store |-> IF store[i].id = c.id THEN c ELSE store[i]]
    ELSE Append(store, c)

IsObject(v) == v.t \in {"obj", "arr", "unres", "ast"}

\* An object-like value as the plain object it is.
AsObj(v) ==
    IF v.t \in {"obj", "arr"} THEN v
    ELSE Obj(v.id, OwnKeys(v), [i \in DOMAIN OwnKeys(v) |-> GetOwn(v, OwnKeys(v)[i])])

RECURSIVE Present(_, _)
Present(v, store) ==
    IF ~IsObject(v) THEN v
    ELSE LET c == IF StoreHas(store, v.id) THEN StoreGet(store, v.id) ELSE v
         IN IF c.t \in {"obj", "arr"}
            THEN [c EXCEPT !.vs = [i \in DOMAIN c.vs |-> Present(c.vs[i], store)]]
            ELSE c

\* delete value[k] / value[k] = v at child i of the stored object
PutChild(c, i, k, v) ==
    IF c.t = "arr" THEN [c EXCEPT !.vs[i] = v]
    ELSE IF v = Undef
    THEN LET j == IndexOf(c.ks, k)
             Drop(q) == [x \in 1..(Len(q) - 1) |-> IF x < j THEN q[x] ELSE q[x + 1]]
         IN [c EXCEPT !.ks = Drop(c.ks), !.vs = Drop(c.vs)]
    ELSE ObjSet(c, k, v)

\* applyReviver(key, value, holder) under reviver `kind`: [ret, store, log]
RECURSIVE applyReviver(_, _, _, _, _)
applyReviver(kind, key, value, store, log) ==
    IF kind = "none" THEN [ret |-> value, store |-> store, log |-> log]
    ELSE
    LET walked ==
            IF IsObject(value)
            THEN LET id == value.id
                     first == IF StoreHas(store, id) THEN store
                              ELSE StorePut(store, AsObj(value))
                     isArr == value.t = "arr"
                     ks0 == StoreGet(first, id).ks
                     n == IF isArr THEN Len(StoreGet(first, id).vs) ELSE Len(ks0)
                     RECURSIVE Loop(_, _)
                     Loop(s, i) ==
                         IF i > n THEN s
                         ELSE LET cur == StoreGet(s.store, id)
                                  k == IF isArr THEN ToString(i - 1) ELSE ks0[i]
                              IN IF ~isArr /\ k \notin Range(cur.ks) THEN Loop(s, i + 1)
                                 ELSE LET element == IF isArr THEN cur.vs[i] ELSE GetOwn(cur, k)
                                          r == applyReviver(kind, k, element, s.store, s.log)
                                          after == StoreGet(r.store, id)
                                      IN Loop([store |-> StorePut(r.store,
                                                            PutChild(after, i, k, r.ret)),
                                               log |-> r.log], i + 1)
                 IN Loop([store |-> first, log |-> log], 1)
            ELSE [store |-> store, log |-> log]
    IN [ret |-> reviver(kind, key, value),
        store |-> walked.store,
        log |-> Append(walked.log, [key |-> key, value |-> Present(value, walked.store)])]

\* parseWithOptions(text, opts) as one call: tokenize, Parser.parse, the test
\* of the errors, evaluate and the reviver walk; the value or the exception.
parseWithOptions(text, opts) ==
    LET Revived(r) ==
            IF ~r.ok THEN r
            ELSE LET w == applyReviver(opts.reviver, "", r.value, <<>>, <<>>)
                 IN Ok(Present(w.ret, w.store))
        Evaluated(parsed) ==
            IF parsed.thrown # NoError THEN Throw(parsed.thrown)
            ELSE IF Len(parsed.errors) > 0 /\ ~opts.tolerant
            THEN Throw(SyntaxError(parsed.errors[1].message
                                       \o " at line " \o ToString(parsed.errors[1].line)
                                       \o ", column " \o ToString(parsed.errors[1].column)))
            ELSE Revived(evaluate(parsed.program, opts))
        Parse(toks) ==
            IF ~toks.ok THEN toks ELSE Evaluated(ParserParse(toks.value, opts))
    IN Parse(tokenize(text, LexerOptions(opts)))

-----------------------------------------------------------------------------
(* The documents evaluate is run on *)

MaxProps == 3

\* The keys of the root object, in declaration order.
TopKeys == <<"a", "b", "c", "d", "e", "f">>
Keys(n) == {TopKeys[i] : i \in 1..n}

Quasis2 == <<TemplateElement("p", FALSE), TemplateElement("q", TRUE)>>
Quasis3 == <<TemplateElement("p", FALSE), TemplateElement("q", FALSE),
             TemplateElement("r", TRUE)>>

\* A literal, or a bare reference: to a root key, or to the name u no key has.
Simple(n) ==
    {Literal(Num(42))} \cup {Identifier(k) : k \in Keys(n) \cup {"u"}}

\* A reference to a name that is a key only inside a nested object (x) or a member
\* of Object.prototype, and member paths through the first root key.
References(n) ==
    {Identifier("x"), Identifier("constructor")}
    \cup {MemberExpression(Identifier("a"), p) : p \in {"x", "path", "length"}}

Templates(n) ==
    {TemplateLiteral(Quasis2, <<Identifier("a")>>),
     TemplateLiteral(Quasis2, <<MemberExpression(Identifier("a"), "x")>>),
     TemplateLiteral(Quasis3, <<Identifier("a"), Identifier("b")>>)}

Containers(n) ==
    {ObjectExpression(<<Property("x", e)>>) :
        e \in {Literal(Num(42)), Identifier("a"), Identifier("b")}}
    \cup {ArrayExpression(<<e>>) :
            e \in {Literal(Num(42)), Identifier("b"), Identifier("c")}}
    \cup {ObjectExpression(<<Property("__UNRESOLVED__", Literal(Bool(TRUE)))>>),
          Literal(Str("s"))}

Values(n) == Simple(n) \cup References(n) \cup Templates(n) \cup Containers(n)

RootObject(vals) ==
    ObjectExpression([i \in DOMAIN vals |-> Property(TopKeys[i], vals[i])])

\* A root object of up to props properties: any value under the first two keys,
\* a literal or a bare reference under the others.
Documents(props) ==
    UNION {{RootObject(vals) :
              vals \in [1..n -> Values(n)] \ {v \in [1..n -> Values(n)] :
                          \E i \in 3..n : v[i] \notin Simple(n)}} : n \in 1..props}
    \cup {ArrayExpression(<<e1, e2>>) :
            e1 \in {Literal(Num(42)), ArrayExpression(<<Literal(Num(42))>>)},
            e2 \in {Identifier("u"), Identifier("length")}}
    \cup {Identifier("u"), Identifier("path"), MemberExpression(Identifier("node"), "type"),
          Literal(Num(42)), Literal(Null)}

\* this.options of a Parser made without options; year is the current year
Defaults ==
    [reviver |-> "identity", mode |-> "jsonv", year |-> 2025,
     allowInternalReferences |-> TRUE, preserveComments |-> FALSE, tolerant |-> FALSE,
     strictBigInt |-> FALSE, strictOctal |-> FALSE]

OptionSets ==
    {[Defaults EXCEPT !.allowInternalReferences = a, !.reviver = r] :
        a \in BOOLEAN, r \in ReviverKinds}

-----------------------------------------------------------------------------
(* Parser.evaluate, step by step *)

Init ==
    /\ source = <<>>
    /\ tokens = <<>>
    /\ errors = <<>>
    /\ program \in Documents(MaxProps)
    /\ options \in OptionSets
    /\ pc = "evaluate"
    /\ result = Undef
    /\ pass = 0
    /\ changed = FALSE
    /\ thrown = NoError
    /\ returned = Undef
    /\ calls = <<>>
    /\ lexerPos = 1
    /\ templateDepth = 0
    /\ written = <<>>
    /\ reparsed = Undef

\* Pass 1, and the branch on allowInternalReferences.
Materialize ==
    /\ pc = "evaluate"
    /\ result' = evaluateNodePass1(program, <<>>)
    /\ IF options.allowInternalReferences
       THEN pc' = "resolve" /\ pass' = 1
       ELSE pc' = "revive" /\ pass' = pass
    /\ UNCHANGED <<lexerPos, templateDepth, written, reparsed>>
    /\ UNCHANGED <<source, tokens, errors, program, options, changed, thrown, returned, calls>>

\* The iteration without its break: the loop goes on after a pass that
\* resolved nothing.
ResolveStepNoBreak ==
    /\ pc = "resolve"
    /\ pass <= maxPasses
    /\ \E r \in {resolvePass(result, result, pass, <<>>)} :
          IF ~r.ok
          THEN /\ thrown' = r.error
               /\ pc' = "thrown"
               /\ UNCHANGED <<result, pass, changed>>
          ELSE /\ result' = r.value
               /\ changed' = r.changed
               /\ IF pass = maxPasses
                  THEN pc' = "check" /\ pass' = pass
                  ELSE pc' = "resolve" /\ pass' = pass + 1
               /\ thrown' = thrown
    /\ UNCHANGED <<lexerPos, templateDepth, written, reparsed>>
    /\ UNCHANGED <<source, tokens, errors, program, options, returned, calls>>

\* One iteration of the loop  for (pass = 1; pass <= maxPasses; pass++).
ResolveStep ==
    /\ pc = "resolve"
    /\ pass <= maxPasses
    /\ \E r \in {resolvePass(result, result, pass, <<>>)} :
          IF ~r.ok
          THEN /\ thrown' = r.error
               /\ pc' = "thrown"
               /\ UNCHANGED <<result, pass, changed>>
          ELSE /\ result' = r.value
               /\ changed' = r.changed
               /\ IF ~r.changed \/ pass = maxPasses
                  THEN pc' = "check" /\ pass' = pass
                  ELSE pc' = "resolve" /\ pass' = pass + 1
               /\ thrown' = thrown
    /\ UNCHANGED <<lexerPos, templateDepth, written, reparsed>>
    /\ UNCHANGED <<source, tokens, errors, program, options, returned, calls>>

CheckStep ==
    /\ pc = "check"
    /\ \E r \in {checkUnresolved(result)} :
          IF r.ok
          THEN pc' = "revive" /\ thrown' = thrown
          ELSE pc' = "thrown" /\ thrown' = r.error
    /\ UNCHANGED <<lexerPos, templateDepth, written, reparsed>>
    /\ UNCHANGED <<source, tokens, errors, program, options, result, pass, changed,
                   returned, calls>>

ReviveStep ==
    /\ pc = "revive"
    /\ \E r \in {applyReviver(options.reviver, "", result, <<>>, <<>>)} :
          /\ returned' = Present(r.ret, r.store)
          /\ calls' = r.log
    /\ pc' = "returned"
    /\ UNCHANGED <<lexerPos, templateDepth, written, reparsed>>
    /\ UNCHANGED <<source, tokens, errors, program, options, result, pass, changed, thrown>>

Next == Materialize \/ ResolveStep \/ CheckStep \/ ReviveStep

Spec == Init /\ [][Next]_vars

MaxLoopProps == 2

\* The root objects of 1..props properties with any value under each
\* key: among them {a: a}, {a: b, b: a}, {a: {x: a}} and {a: [b], b: ~p${a}q~}.
LoopDocuments(props) ==
    UNION {{RootObject(vals) : vals \in [1..n -> Values(n)]} : n \in 1..props}

InitFair ==
    /\ source = <<>>
    /\ tokens = <<>>
    /\ errors = <<>>
    /\ program \in LoopDocuments(MaxLoopProps)
    /\ options \in OptionSets
    /\ pc = "evaluate"
    /\ result = Undef
    /\ pass = 0
    /\ changed = FALSE
    /\ thrown = NoError
    /\ returned = Undef
    /\ calls = <<>>
    /\ lexerPos = 1
    /\ templateDepth = 0
    /\ written = <<>>
    /\ reparsed = Undef

\* A step of the call: it moves on to another statement or to the next pass.
\* Each action of Next is enabled by pc alone (its other conjuncts define the
\* primed variables; pass <= maxPasses holds wherever pc = "resolve"), so Next
\* is enabled exactly where Advance is.
Advance ==
    /\ pc \in {"evaluate", "resolve", "check", "revive"}
    /\ pc' \in {"resolve", "check", "revive", "returned", "thrown"}
    /\ pass' \in 0..maxPasses
    /\ <<pc', pass'>> # <<pc, pass>>

\* evaluate is one synchronous call: while it has not ended it goes on.
SpecFair == InitFair /\ [][Next]_vars /\ WF_<<pc, pass>>(Advance)

-----------------------------------------------------------------------------
(* evaluate on chains of bare references *)

MaxChain == 4

Orders(n) ==
    {f \in [1..n -> 1..n] : \A i, j \in 1..n : f[i] = f[j] => i = j}

\* The root object whose key at place f[1] refers to the key at place f[2], that
\* one to the key at f[3], and so on; the key at the last place of f is 5.
Chain(f) ==
    LET n == Len(f)
        At(i) == CHOOSE j \in 1..n : f[j] = i
    IN RootObject([i \in 1..n |->
                      IF At(i) = n THEN Literal(Num(5))
                      ELSE Identifier(TopKeys[f[At(i) + 1]])])

\* Chains of up to MaxChain references, in every order of declaration.
ChainDocuments ==
    UNION {{Chain(f) : f \in Orders(k + 1)} : k \in 0..MaxChain}

InitChain ==
    /\ source = <<>>
    /\ tokens = <<>>
    /\ errors = <<>>
    /\ program \in ChainDocuments
    /\ options = Defaults
    /\ pc = "evaluate"
    /\ result = Undef
    /\ pass = 0
    /\ changed = FALSE
    /\ thrown = NoError
    /\ returned = Undef
    /\ calls = <<>>
    /\ lexerPos = 1
    /\ templateDepth = 0
    /\ written = <<>>
    /\ reparsed = Undef

SpecChain == InitChain /\ [][Next]_vars

-----------------------------------------------------------------------------
(* The parse call: parse(text, reviver) and parseWithOptions(text, options), *)
(* from the text to the value.                                               *)

\* {a:b,b:4}
ForwardText ==
     <<"{", "a", ":", "b", ",", "b", ":", "4", "}">>

\* [4,a]
ArrayText ==
     <<"[", "4", ",", "a", "]">>

\* {a:"s",b:a}
StringText ==
     <<"{", "a", ":", "\"", "s", "\"", ",", "b", ":", "a", "}">>

\* {a:4,b:~p${a}q~}   (~ is the backtick)
TemplateText ==
     <<"{", "a", ":", "4", ",", "b", ":", Backtick, "p", "$", "{", "a", "}", "q", Backtick,
       "}">>

\* {a:{__UNRESOLVED__:true}}
MarkerText ==
     <<"{", "a", ":", "{", "_", "_", "U", "N", "R", "E", "S", "O", "L", "V", "E", "D", "_",
       "_", ":", "t", "r", "u", "e", "}", "}">>

\* {a:b.x,b:{x:4}}
MemberText ==
     <<"{", "a", ":", "b", ".", "x", ",", "b", ":", "{", "x", ":", "4", "}", "}">>

\* [-0x1n]
NegativeHexText ==
     <<"[", "-", "0", "x", "1", "n", "]">>

\* {a:~p
\* q~}      a template that spans two lines
MultilineText ==
     <<"{", "a", ":", Backtick, "p", "\n", "q", Backtick, "}">>

BaseTexts ==
    {ForwardText, ArrayText, StringText, TemplateText, MarkerText, MemberText,
     NegativeHexText, MultilineText}

\* The texts of the model: the base texts, and the texts at most edits
\* deletions or insertions of one character away from them, for edits = MaxEdits.
MaxEdits == 1

InsertChars == {"@", "}", ",", "\"", Backtick, " ", "a", "4"}

Delete(t, i) == SubSeq(t, 1, i - 1) \o SubSeq(t, i + 1, Len(t))
Insert(t, i, ch) == SubSeq(t, 1, i) \o <<ch>> \o SubSeq(t, i + 1, Len(t))

EditOnce(t) ==
    {Delete(t, i) : i \in 1..Len(t)}
    \cup {Insert(t, i, ch) : i \in 0..Len(t), ch \in InsertChars}

RECURSIVE Edited(_, _)
Edited(texts, n) ==
    IF n = 0 THEN texts
    ELSE texts \cup Edited(UNION {EditOnce(t) : t \in texts}, n - 1)

Texts(edits) == Edited(BaseTexts, edits)

ParseOptionSets == {[Defaults EXCEPT !.tolerant = t] : t \in BOOLEAN}

\* No program yet
NoProgram == [type |-> "none"]

InitParse ==
    /\ source \in Texts(MaxEdits)
    /\ tokens = <<>>
    /\ errors = <<>>
    /\ program = NoProgram
    /\ options \in ParseOptionSets
    /\ pc = "tokenize"
    /\ result = Undef
    /\ pass = 0
    /\ changed = FALSE
    /\ thrown = NoError
    /\ returned = Undef
    /\ calls = <<>>
    /\ lexerPos = 1
    /\ templateDepth = 0
    /\ written = <<>>
    /\ reparsed = Undef

\* new Parser(text, options), and this.lexer.tokenize() in Parser.parse
Tokenize ==
    /\ pc = "tokenize"
    /\ \E r \in {tokenize(source, LexerOptions(options))} :
          IF r.ok
          THEN tokens' = r.value /\ pc' = "parse" /\ thrown' = thrown
          ELSE tokens' = tokens /\ pc' = "thrown" /\ thrown' = r.error
    /\ UNCHANGED <<lexerPos, templateDepth, written, reparsed>>
    /\ UNCHANGED <<source, errors, program, options, result, pass, changed, returned, calls>>

\* The rest of Parser.parse: the tree and the error list
ParseStep ==
    /\ pc = "parse"
    /\ \E r \in {ParserParse(tokens, options)} :
          /\ errors' = r.errors
          /\ IF r.thrown # NoError
             THEN program' = program /\ thrown' = r.thrown /\ pc' = "thrown"
             ELSE program' = r.program /\ thrown' = thrown /\ pc' = "report"
    /\ UNCHANGED <<lexerPos, templateDepth, written, reparsed>>
    /\ UNCHANGED <<source, tokens, options, result, pass, changed, returned, calls>>

\* The test of result.errors in parse and parseWithOptions
Report ==
    /\ pc = "report"
    /\ IF Len(errors) > 0 /\ ~options.tolerant
       THEN /\ thrown' = SyntaxError(errors[1].message
                                         \o " at line " \o ToString(errors[1].line)
                                         \o ", column " \o ToString(errors[1].column))
            /\ pc' = "thrown"
       ELSE /\ thrown' = thrown
            /\ pc' = "evaluate"
    /\ UNCHANGED <<lexerPos, templateDepth, written, reparsed>>
    /\ UNCHANGED <<source, tokens, errors, program, options, result, pass, changed,
                   returned, calls>>

NextParse == Tokenize \/ ParseStep \/ Report \/ Materialize \/ ResolveStep \/ CheckStep \/ ReviveStep

SpecParse == InitParse /\ [][NextParse]_vars

-----------------------------------------------------------------------------
(* Properties of reference resolution *)

\* A value without the identities of its objects.
RECURSIVE Plain(_)
Plain(v) ==
    CASE v.t = "obj" -> [t |-> "obj", ks |-> v.ks, vs |-> [i \in DOMAIN v.vs |-> Plain(v.vs[i])]]
      [] v.t = "arr" -> [t |-> "arr", vs |-> [i \in DOMAIN v.vs |-> Plain(v.vs[i])]]
      [] v.t = "unres" -> [t |-> "unres", path |-> v.path]
      [] v.t = "ast" -> [t |-> "ast", node |-> v.node]
      [] OTHER -> v

\* The plain object {a: v1, b: v2, ...}
PlainObject(vals) ==
    [t |-> "obj", ks |-> [i \in DOMAIN vals |-> TopKeys[i]], vs |-> vals]

IsRootObject == program.type = "ObjectExpression"
Resolving == options.allowInternalReferences

\* The resolution loop has ended without an exception: result is final.
Settled == Resolving /\ pc \in {"check", "revive", "returned"}

\* evaluate is about to return result (only the reviver walk is left).
Accepted == Resolving /\ pc = "revive"

ForwardDocument == RootObject(<<Identifier("b"), Literal(Num(42))>>)
BackwardDocument == RootObject(<<Literal(Num(42)), Identifier("a")>>)

DeclaredKeys ==
    IF IsRootObject THEN {program.properties[i].key : i \in DOMAIN program.properties}
    ELSE {}

ValueOfKey(k) ==
    program.properties[CHOOSE i \in DOMAIN program.properties :
                          program.properties[i].key = k].value

\* The bare names a node refers to, at any depth, interpolated ones included.
RECURSIVE Mentions(_)
Mentions(node) ==
    CASE node.type = "Identifier" -> {node.name}
      [] node.type = "TemplateLiteral" ->
           {node.expressions[i].name :
               i \in {j \in DOMAIN node.expressions : node.expressions[j].type = "Identifier"}}
      [] node.type = "ObjectExpression" ->
           UNION {Mentions(node.properties[i].value) : i \in DOMAIN node.properties}
      [] node.type = "ArrayExpression" ->
           UNION {Mentions(node.elements[i]) : i \in DOMAIN node.elements}
      [] OTHER -> {}

\* The keys whose values the value of key k needs, directly or through others.
RECURSIVE Needs(_, _)
Needs(ks, n) ==
    IF n = 0 THEN ks
    ELSE Needs(ks \cup UNION {Mentions(ValueOfKey(k)) \cap DeclaredKeys : k \in ks}, n - 1)

\* Some key's value holds or interpolates a bare reference that leads back to the key.
Cyclic ==
    /\ IsRootObject
    /\ \E k \in DeclaredKeys :
          k \in Needs(Mentions(ValueOfKey(k)) \cap DeclaredKeys, Len(program.properties))

\* C2: when the references of a document form a cycle, the call raises and
\* returns no value.
C2_CircularRejected ==
    (Resolving /\ Cyclic) => pc \notin {"revive", "returned"}

RECURSIVE HoldsPlaceholder(_)
HoldsPlaceholder(v) ==
    \/ isUnresolved(v)
    \/ v.t \in {"obj", "arr"} /\ \E i \in DOMAIN v.vs : HoldsPlaceholder(v.vs[i])

\* C3: under every option combination, a returned value holds no placeholder at
\* any depth.
C3_NoPlaceholderReturned ==
    pc = "returned" => ~HoldsPlaceholder(returned)

\* The bare identifier references of a node: as a value, a property value or an
\* array element, at any depth.
RECURSIVE BareIdentifiers(_)
BareIdentifiers(node) ==
    CASE node.type = "Identifier" -> {node.name}
      [] node.type = "ObjectExpression" ->
           UNION {BareIdentifiers(node.properties[i].value) : i \in DOMAIN node.properties}
      [] node.type = "ArrayExpression" ->
           UNION {BareIdentifiers(node.elements[i]) : i \in DOMAIN node.elements}
      [] OTHER -> {}

\* C4: a bare identifier whose name is no declared top-level key never resolves:
\* a document holding one is not evaluated to a value.
C4_UndeclaredNeverResolves ==
    (Resolving /\ BareIdentifiers(program) \ DeclaredKeys # {})
        => pc \notin {"revive", "returned"}

\* The value at a path of declared keys through mappings; Undef when a segment is
\* no declared key, or the value reached is no mapping or is a placeholder.
RECURSIVE DeclaredLookup(_, _)
DeclaredLookup(value, path) ==
    IF path = <<>> THEN value
    ELSE IF value.t = "obj" /\ ~isUnresolved(value) /\ Head(path) \in Range(value.ks)
    THEN DeclaredLookup(value.vs[IndexOf(value.ks, Head(path))], Tail(path))
    ELSE Undef

\* The member paths and templates evaluate has resolved, with the values they
\* ended as: the document itself, or the top-level properties.
ResolvedAs(type) ==
    IF program.type = type THEN {<<program, result>>}
    ELSE IF IsRootObject
    THEN {<<program.properties[i].value, result.vs[i]>> :
             i \in {j \in DOMAIN program.properties : program.properties[j].value.type = type}}
    ELSE {}

\* C5: a member path that evaluate resolved yields the value stored at that path
\* of declared keys, never a field of a placeholder or of a non-mapping.
C5_MemberPathValue ==
    Accepted =>
        \A r \in ResolvedAs("MemberExpression") :
            LET stored == DeclaredLookup(result, buildMemberPath(r[1]))
            IN stored # Undef /\ Plain(r[2]) = Plain(stored)

\* The literal segments of a template interleaved with the string forms of the
\* values its expressions have in root; Undef when one of them has no value.
Interpolated(node, root) ==
    LET RECURSIVE Build(_, _)
        Build(res, i) ==
            IF i > Len(node.quasis) THEN Str(res)
            ELSE IF i > Len(node.expressions) THEN Build(res \o node.quasis[i].cooked, i + 1)
            ELSE LET v == DeclaredLookup(root, buildMemberPath(node.expressions[i]))
                 IN IF v = Undef THEN Undef
                    ELSE Build(res \o node.quasis[i].cooked \o ToStr(v), i + 1)
    IN Build("", 1)

\* C6: a template that evaluate resolved is the string of its literal segments
\* interleaved, in order, with the string forms of the values of its expressions.
C6_TemplateValue ==
    Accepted =>
        \A r \in ResolvedAs("TemplateLiteral") : r[2] = Interpolated(r[1], result)

\* The keys of a walk that visits the children of a value, in order, before the
\* value itself.
RECURSIVE PostOrderKeys(_, _)
PostOrderKeys(key, v) ==
    IF ~IsObject(v) THEN <<key>>
    ELSE LET c == AsObj(v)
             RECURSIVE Kids(_)
             Kids(i) ==
                 IF i > Len(c.vs) THEN <<>>
                 ELSE PostOrderKeys(IF c.t = "arr" THEN ToString(i - 1) ELSE c.ks[i], c.vs[i])
                      \o Kids(i + 1)
         IN Append(Kids(1), key)

\* The value a reviver makes of a tree: each child becomes what the reviver
\* returned for it, a key whose child became undefined is deleted (an array
\* keeps a hole), and the reviver is then applied to the value itself.
RECURSIVE Revived(_, _, _)
Revived(kind, key, v) ==
    IF ~IsObject(v) THEN reviver(kind, key, v)
    ELSE LET c == AsObj(v)
             kids == [i \in DOMAIN c.vs |->
                         Revived(kind, IF c.t = "arr" THEN ToString(i - 1) ELSE c.ks[i],
                                 c.vs[i])]
             kept == IF c.t = "arr" THEN DOMAIN kids
                     ELSE {i \in DOMAIN kids : kids[i] # Undef}
             RECURSIVE Pick(_, _)
             Pick(q, i) ==
                 IF i > Len(q) THEN <<>>
                 ELSE (IF i \in kept THEN <<q[i]>> ELSE <<>>) \o Pick(q, i + 1)
         IN reviver(kind, key,
                    IF c.t = "arr" THEN [c EXCEPT !.vs = kids]
                    ELSE [c EXCEPT !.ks = Pick(c.ks, 1), !.vs = Pick(kids, 1)])

C8_AfterResolution ==
    \A i \in DOMAIN calls : ~isUnresolved(calls[i].value)

C8_ChildrenFirst ==
    (pc = "returned" /\ options.reviver # "none") =>
        /\ [i \in DOMAIN calls |-> calls[i].key] = PostOrderKeys("", result)
        /\ calls[Len(calls)].key = ""

C8_DeleteOrReplace ==
    (pc = "returned" /\ options.reviver # "none") =>
        Plain(returned) = Plain(Revived(options.reviver, "", result))

\* C8: the reviver is never called with a placeholder, under any options; it
\* visits children before their parent and the root last with key ""; a returned
\* undefined deletes the key or element and any other value replaces it.
C8_ReviverWalk ==
    C8_AfterResolution /\ C8_ChildrenFirst /\ C8_DeleteOrReplace

C2_Witness ==
    /\ program = RootObject(<<ArrayExpression(<<Identifier("b")>>),
                              TemplateLiteral(Quasis2, <<Identifier("a")>>)>>)
    /\ options = Defaults
    /\ pc = "returned"
    /\ Plain(returned) = PlainObject(<<[t |-> "arr", vs |-> <<Str("p[object Object]q")>>],
                                       Str("p[object Object]q")>>)

C3_Witness ==
    /\ program = BackwardDocument
    /\ options = [Defaults EXCEPT !.allowInternalReferences = FALSE]
    /\ pc = "returned"
    /\ returned.vs[1] = Num(42)
    /\ isUnresolved(returned.vs[2])

C4_Witness ==
    /\ program = RootObject(<<Identifier("constructor")>>)
    /\ options = Defaults
    /\ pc = "returned"
    /\ returned.vs = <<Fn("Object")>>

C5_Witness ==
    /\ program = RootObject(<<Identifier("c"), MemberExpression(Identifier("a"), "path"),
                              Literal(Num(42))>>)
    /\ options = Defaults
    /\ pc = "returned"
    /\ returned.vs = <<Num(42), Str("c"), Num(42)>>

C6_Witness ==
    /\ program = RootObject(<<ArrayExpression(<<Identifier("c")>>),
                              TemplateLiteral(Quasis2, <<Identifier("a")>>),
                              Literal(Num(42))>>)
    /\ options = Defaults
    /\ pc = "returned"
    /\ Plain(returned) = PlainObject(<<[t |-> "arr", vs |-> <<Num(42)>>],
                                       Str("p[object Object]q"), Num(42)>>)

C8_Witness ==
    /\ program = BackwardDocument
    /\ options = [Defaults EXCEPT !.allowInternalReferences = FALSE,
                                 !.reviver = "replaceStrings"]
    /\ pc = "returned"
    /\ \E i \in DOMAIN calls : calls[i].key = "b" /\ isUnresolved(calls[i].value)

-----------------------------------------------------------------------------
(* Properties of chains, under SpecChain *)

\* The number of references of the chain.
Links == Len(program.properties) - 1

AllFive == \A i \in DOMAIN result.vs : result.vs[i] = Num(5)

-----------------------------------------------------------------------------
(* The error kinds of a parse call, under SpecParse *)

\* C9: every failure of a parse call is of the kind of the stage that failed
\* and of no other: a LexerError while no token stream exists yet, a
\* SyntaxError once the tokens exist and no value has been built, an
\* evaluation Error once evaluate has built the pass-1 value.
C9_ErrorKindByStage ==
    pc = "thrown" =>
        \/ tokens = <<>> /\ thrown.kind = "LexerError"
        \/ tokens # <<>> /\ result = Undef /\ thrown.kind = "SyntaxError"
        \/ tokens # <<>> /\ result # Undef /\ thrown.kind = "Error"

\* {a:{__UNRESOLVED__:true}} is tokenized and parsed without error, and
\* evaluate fails with a TypeError.
C9_Witness ==
    /\ source = MarkerText
    /\ pc = "thrown"
    /\ errors = <<>>
    /\ result # Undef
    /\ thrown.kind = "TypeError"

\* [-0x1n] fails in the tokenizer with a SyntaxError, the kind of the parser.
C9_LexerSyntaxError ==
    /\ source = NegativeHexText
    /\ pc = "thrown"
    /\ tokens = <<>>
    /\ thrown.kind = "SyntaxError"

\* C10: no error is swallowed: a parse call that returns a value recorded no
\* error, in fail-fast and in tolerant mode.
C10_NoErrorSwallowed ==
    pc = "returned" => errors = <<>>

\* {a:b,b:} in tolerant mode: the parser records errors, and the call returns
\* a value with null in the place of the missing one.
C10_Witness ==
    /\ source = Delete(ForwardText, 8)
    /\ options.tolerant
    /\ pc = "returned"
    /\ Len(errors) > 0
    /\ thrown = NoError

-----------------------------------------------------------------------------
(* Fail-fast mode, under SpecParse *)

\* C11 without the line and column: in fail-fast mode, once the parser has
\* run, the error list holds at most one entry; if the token stream has
\* grammar errors (the errors the parser records in tolerant mode, in the
\* order it meets them), the first of them is the one recorded, no other lies
\* earlier in the text, and the call ends in a SyntaxError that starts with
\* its message, with no value built.
C11_FirstErrorOnly ==
    (~options.tolerant /\ pc \notin {"tokenize", "parse", "report"} /\ tokens # <<>>) =>
        \E all \in {ParserParse(tokens, [options EXCEPT !.tolerant = TRUE]).errors} :
            /\ Len(errors) <= 1
            /\ all = <<>> => errors = <<>>
            /\ all # <<>> =>
                   /\ errors = <<all[1]>>
                   /\ \A i \in 1..Len(all) : all[1].offset <= all[i].offset
                   /\ pc = "thrown"
                   /\ thrown.kind = "SyntaxError"
                   /\ result = Undef

\* C11: as above, and the SyntaxError names the line and the column at which
\* the token of the first error starts in the text.
C11_FailFastFirstError ==
    (~options.tolerant /\ pc \notin {"tokenize", "parse", "report"} /\ tokens # <<>>) =>
        \E all \in {ParserParse(tokens, [options EXCEPT !.tolerant = TRUE]).errors} :
            /\ Len(errors) <= 1
            /\ all # <<>> =>
                   /\ errors = <<all[1]>>
                   /\ pc = "thrown"
                   /\ result = Undef
                   /\ thrown = SyntaxError(
                          all[1].message
                          \o " at line "
                          \o ToString(getCurrentPosition(source, all[1].offset + 1).line)
                          \o ", column "
                          \o ToString(getCurrentPosition(source, all[1].offset + 1).column))

\* {a~p
\* q~} in fail-fast mode: the first error is at the template, which starts on
\* line 1, and the message names line 2.
C11_Witness ==
    /\ source = Delete(MultilineText, 3)
    /\ ~options.tolerant
    /\ pc = "thrown"
    /\ Len(errors) = 1
    /\ errors[1].offset = 2
    /\ errors[1].line = 2
    /\ errors[1].column < 0

-----------------------------------------------------------------------------
(* parse of one integer literal around 2^53 *)

\* The forms of an integer literal: the text before its digits and the radix
IntegerForms == {"decimal", "hex", "octal", "binary", "legacy"}

FormPrefix(form) ==
    CASE form = "hex" -> <<"0", "x">> [] form = "octal" -> <<"0", "o">>
      [] form = "binary" -> <<"0", "b">> [] form = "legacy" -> <<"0">>
      [] OTHER -> <<>>

FormRadix(form) ==
    CASE form = "hex" -> 16 [] form = "binary" -> 2 [] form = "decimal" -> 10 [] OTHER -> 8

\* 2^53 - 1, 2^53 and 2^53 + 1 in each radix, 2^53 + 225 in hex (0x...E1),
\* and 42
NearLimit(form) ==
    CASE form = "decimal" ->
           {<<"4", "2">>,
            <<"9", "0", "0", "7", "1", "9", "9", "2", "5", "4", "7", "4", "0", "9", "9", "1">>,
            <<"9", "0", "0", "7", "1", "9", "9", "2", "5", "4", "7", "4", "0", "9", "9", "2">>,
            <<"9", "0", "0", "7", "1", "9", "9", "2", "5", "4", "7", "4", "0", "9", "9", "3">>}
      [] form = "hex" ->
           {<<"2", "A">>,
            <<"1">> \o [i \in 1..13 |-> "F"],
            <<"2">> \o [i \in 1..13 |-> "0"],
            <<"2">> \o [i \in 1..12 |-> "0"] \o <<"1">>,
            <<"2">> \o [i \in 1..11 |-> "0"] \o <<"E", "1">>}
      [] form = "binary" ->
           {<<"1", "0", "1">>,
            [i \in 1..53 |-> "1"],
            <<"1">> \o [i \in 1..53 |-> "0"],
            <<"1">> \o [i \in 1..52 |-> "0"] \o <<"1">>}
      [] OTHER ->
           {<<"5", "2">>,
            <<"3">> \o [i \in 1..17 |-> "7"],
            <<"4">> \o [i \in 1..17 |-> "0"],
            <<"4">> \o [i \in 1..16 |-> "0"] \o <<"1">>}

Signs == {<<>>, <<"-">>, <<"+">>}

\* sign, prefix, digits and what follows the digits; a decimal point or an
\* exponent follows decimal digits only
Literals(form) ==
    {sign \o FormPrefix(form) \o digits \o tail :
        sign \in Signs, digits \in NearLimit(form),
        tail \in IF form = "decimal"
                 THEN {<<>>, <<"n">>, <<".", "0">>, <<"e", "0">>, <<"E", "0">>}
                 ELSE {<<>>, <<"n">>}}

\* The pure integer literals with a separator after their first digit (a
\* legacy octal literal takes none).
SeparatedLiterals(form) ==
    {sign \o FormPrefix(form) \o Insert(digits, 1, "_") :
        sign \in Signs, digits \in IF form = "legacy" THEN {} ELSE NearLimit(form)}

NumberTexts == UNION {Literals(form) \cup SeparatedLiterals(form) : form \in IntegerForms}

InitNumber ==
    /\ source \in NumberTexts
    /\ tokens = <<>>
    /\ errors = <<>>
    /\ program = NoProgram
    /\ options \in {[Defaults EXCEPT !.strictBigInt = b] : b \in BOOLEAN}
    /\ pc = "tokenize"
    /\ result = Undef
    /\ pass = 0
    /\ changed = FALSE
    /\ thrown = NoError
    /\ returned = Undef
    /\ calls = <<>>
    /\ lexerPos = 1
    /\ templateDepth = 0
    /\ written = <<>>
    /\ reparsed = Undef

SpecNumber == InitNumber /\ [][NextParse]_vars

\* C12: a literal that is lexically a pure integer (sign, prefix and digits,
\* nothing after them) is under the safe-integer policy: if its magnitude
\* exceeds 2^53 - 1 the call ends in the error that demands the n suffix
\* (strictBigInt) or returns the bigint of its exact value (default), and
\* otherwise it returns the number; a decimal literal with a decimal point or
\* an exponent is returned as a number whatever its magnitude.
C12_SafeIntegerPolicy ==
    pc \in {"returned", "thrown"} =>
        \A form \in IntegerForms, sign \in Signs :
            \A digits \in NearLimit(form) :
                /\ source = sign \o FormPrefix(form) \o digits =>
                       \E exact \in {ToDecimal(digits, FormRadix(form))} :
                           IF ~Greater(exact, MAX_SAFE_INTEGER)
                           THEN pc = "returned" /\ returned = Integer(sign = <<"-">>, exact)
                           ELSE IF options.strictBigInt
                           THEN /\ pc = "thrown"
                                /\ thrown.kind = "SyntaxError"
                                /\ Len(errors) = 1
                           ELSE /\ pc = "returned"
                                /\ returned = BigInteger(sign = <<"-">>, exact)
                /\ \A tail \in {<<".", "0">>, <<"e", "0">>, <<"E", "0">>} :
                       (form = "decimal" /\ source = sign \o digits \o tail) =>
                           pc = "returned" /\ returned.t = "num"

\* 0x200000000000E1 (2^53 + 225) is returned as a number: the E among its
\* digits is taken for an exponent.
C12_Witness ==
    /\ source = <<"0", "x", "2">> \o [i \in 1..11 |-> "0"] \o <<"E", "1">>
    /\ pc = "returned"
    /\ returned.t = "num"
    /\ "int" \in DOMAIN returned
    /\ Greater(returned.int, MAX_SAFE_INTEGER)

\* The other two ways the policy fails with strictBigInt off:
\* -0x20000000000001 ends in the SyntaxError of BigInt("-0x20000000000001"),
\* and 0400000000000000001 (legacy octal, 2^53 + 1) is returned as the bigint
\* 400000000000000001, its digits read as decimal.
C12_NegativePrefixed ==
    /\ source = <<"-", "0", "x", "2">> \o [i \in 1..12 |-> "0"] \o <<"1">>
    /\ ~options.strictBigInt
    /\ pc = "thrown"
    /\ errors = <<>>
    /\ thrown.kind = "SyntaxError"

C12_LegacyOctalRead ==
    /\ source = <<"0", "4">> \o [i \in 1..16 |-> "0"] \o <<"1">>
    /\ ~options.strictBigInt
    /\ pc = "returned"
    /\ returned = BigInteger(FALSE, <<"4">> \o [i \in 1..16 |-> "0"] \o <<"1">>)

-----------------------------------------------------------------------------
(* The edition resolvers, called with one year after another *)

MinYear == 1990
MaxYear == 2045

\* The years asked for: a range round the feature years, and some integers
\* far from it.
Years == (MinYear..MaxYear) \cup {-2021, -1, 0, 1, 2011 * 1000}

InitYear ==
    /\ source = <<>>
    /\ tokens = <<>>
    /\ errors = <<>>
    /\ program = NoProgram
    /\ options = Defaults
    /\ pc = "year"
    /\ result = Undef
    /\ pass = 0
    /\ changed = FALSE
    /\ thrown = NoError
    /\ returned = Undef
    /\ calls = <<>>
    /\ lexerPos = 1
    /\ templateDepth = 0
    /\ written = <<>>
    /\ reparsed = Undef

\* getFeatureYear(year), the year kept in options.year and the answer in returned.
GetFeatureYear ==
    \E year \in Years :
        /\ options' = [options EXCEPT !.year = year]
        /\ returned' = Num(getFeatureYear(year))
        /\ pc' = "getFeatureYear"
        /\ UNCHANGED <<source, tokens, errors, program, result, pass, changed, thrown, calls>>
        /\ UNCHANGED <<lexerPos, templateDepth, written, reparsed>>

\* resolveYear(year), likewise.
ResolveYear ==
    \E year \in Years :
        /\ options' = [options EXCEPT !.year = year]
        /\ returned' = Num(resolveYear(year))
        /\ pc' = "resolveYear"
        /\ UNCHANGED <<source, tokens, errors, program, result, pass, changed, thrown, calls>>
        /\ UNCHANGED <<lexerPos, templateDepth, written, reparsed>>

NextYear == GetFeatureYear \/ ResolveYear

SpecYear == InitYear /\ [][NextYear]_vars

Editions == {2011, 2015, 2020, 2021}

\* C13: whichever resolver was called with the year y, it did not raise and
\* its answer is the greatest edition of {2011, 2015, 2020, 2021} that is at
\* most y, 2011 when y is below 2011 and 2021 when y is above 2021.
C13_GreatestEditionAtMost ==
    pc \in {"getFeatureYear", "resolveYear"} =>
        LET y == options.year
            atMost == {e \in Editions : e <= y}
        IN /\ thrown = NoError
           /\ returned.t = "num"
           /\ returned.n \in Editions
           /\ y < 2011 => returned.n = 2011
           /\ y > 2021 => returned.n = 2021
           /\ atMost # {} => /\ returned.n \in atMost
                             /\ \A e \in atMost : e <= returned.n

\* Each resolver has answered 2015 for a year strictly between two editions.
C13_Witness ==
    /\ pc \in {"getFeatureYear", "resolveYear"}
    /\ options.year = 2019
    /\ returned = Num(2015)

\* C14: of two calls of the same resolver, one after the other, the call with
\* the greater or equal year has the greater or equal answer.
C14_Monotonic ==
    [][(pc' = pc /\ pc \in {"getFeatureYear", "resolveYear"}) =>
          /\ options.year <= options'.year => returned.n <= returned'.n
          /\ options.year >= options'.year => returned.n >= returned'.n]_vars

\* A call for 2022 has followed calls that answered 2021 (the step from 2021
\* to 2022 is the one where the answer stops growing).
C14_Witness ==
    /\ pc = "getFeatureYear"
    /\ options.year = 2022
    /\ returned = Num(2021)

-----------------------------------------------------------------------------
(* parse of one literal under each edition *)

\* The literal forms with the edition that introduced the newest of their
\* parts and the value they stand for; the last three are not gated.
GatedLiterals ==
    {[text |-> <<"0", "b", "1", "0", "1", "0">>, edition |-> 2015, value |-> Num(10)],
     [text |-> <<"0", "B", "1", "1">>, edition |-> 2015, value |-> Num(3)],
     [text |-> <<"0", "o", "1", "7">>, edition |-> 2015, value |-> Num(15)],
     [text |-> <<"0", "O", "7">>, edition |-> 2015, value |-> Num(7)],
     [text |-> <<Backtick, "a", "b", Backtick>>, edition |-> 2015, value |-> Str("ab")],
     [text |-> <<Backtick, Backtick>>, edition |-> 2015, value |-> Str("")],
     [text |-> <<"7", "n">>, edition |-> 2020, value |-> BigInt(7)],
     [text |-> <<"0", "x", "F", "n">>, edition |-> 2020, value |-> BigInt(15)],
     [text |-> <<"0", "b", "1", "1", "n">>, edition |-> 2020, value |-> BigInt(3)],
     [text |-> <<"0", "7", "n">>, edition |-> 2020, value |-> BigInt(7)],
     [text |-> <<"1", "_", "0">>, edition |-> 2021, value |-> Num(10)],
     [text |-> <<"0", "x", "F", "_", "F">>, edition |-> 2021, value |-> Num(255)],
     [text |-> <<"0", "b", "1", "_", "0">>, edition |-> 2021, value |-> Num(2)],
     [text |-> <<"0", "o", "1", "_", "7">>, edition |-> 2021, value |-> Num(15)],
     [text |-> <<"1", "_", "0", "n">>, edition |-> 2021, value |-> BigInt(10)],
     [text |-> <<"0", "x", "F", "F">>, edition |-> 2011, value |-> Num(255)],
     [text |-> <<"0", "7", "5", "5">>, edition |-> 2011, value |-> Num(493)],
     [text |-> <<"1", "0">>, edition |-> 2011, value |-> Num(10)]}

InitEdition ==
    /\ source \in {literal.text : literal \in GatedLiterals}
    /\ tokens = <<>>
    /\ errors = <<>>
    /\ program = NoProgram
    /\ options \in {[Defaults EXCEPT !.year = year] : year \in Years}
    /\ pc = "tokenize"
    /\ result = Undef
    /\ pass = 0
    /\ changed = FALSE
    /\ thrown = NoError
    /\ returned = Undef
    /\ calls = <<>>
    /\ lexerPos = 1
    /\ templateDepth = 0
    /\ written = <<>>
    /\ reparsed = Undef

SpecEdition == InitEdition /\ [][NextParse]_vars

\* The edition a year resolves to, by the rule of the specification.
Resolved(year) ==
    IF year < 2011 THEN 2011
    ELSE CHOOSE e \in Editions : e <= year /\ \A f \in Editions : f <= year => f <= e

C15_Accepted ==
    \/ /\ source = <<"0", "b", "1", "0", "1", "0">>
       /\ options.year = 2015
       /\ returned = Num(10)
    \/ /\ source = <<"1", "_", "0">>
       /\ options.year = 2021
       /\ returned = Num(10)

-----------------------------------------------------------------------------
(* parse of one numeric literal with separators *)

\* Literals without separators, and their values.
SeparatorBases ==
    {[text |-> <<"1", "0", "0", "0">>, value |-> Num(1000)],
     [text |-> <<"1", "0", "0", "0", "0", "0", "0">>, value |-> Num(1000000)],
     [text |-> <<"0", "x", "F", "F">>, value |-> Num(255)],
     [text |-> <<"0", "b", "1", "0">>, value |-> Num(2)],
     [text |-> <<"0", "o", "1", "7">>, value |-> Num(15)],
     [text |-> <<"1", ".", "5">>, value |-> Float("1.5")],
     [text |-> <<"1", "2", ".", "2", "5">>, value |-> Float("12.25")],
     [text |-> <<"1", "e", "5">>, value |-> Num(100000)],
     [text |-> <<"2", "E", "+", "3">>, value |-> Num(2000)],
     [text |-> <<"5", "e", "-", "1">>, value |-> Float("0.5")]}

MaxSeparators == 2

\* The texts got from t by putting in up to n separators, anywhere.
RECURSIVE Separated(_, _)
Separated(texts, n) ==
    IF n = 0 THEN texts
    ELSE texts \cup Separated(UNION {{Insert(t, i, "_") : i \in 0..Len(t)} : t \in texts},
                                    n - 1)

\* A text that begins with two underscores is an identifier (a reference),
\* not a numeric literal, and is left out.
SeparatorTexts ==
    {t \in Separated({base.text : base \in SeparatorBases}, MaxSeparators) :
        ~(t[1] = "_" /\ t[2] = "_")}

InitSeparator ==
    /\ source \in SeparatorTexts
    /\ tokens = <<>>
    /\ errors = <<>>
    /\ program = NoProgram
    /\ options \in {[Defaults EXCEPT !.year = year] : year \in {2021, 2025}}
    /\ pc = "tokenize"
    /\ result = Undef
    /\ pass = 0
    /\ changed = FALSE
    /\ thrown = NoError
    /\ returned = Undef
    /\ calls = <<>>
    /\ lexerPos = 1
    /\ templateDepth = 0
    /\ written = <<>>
    /\ reparsed = Undef

SpecSeparator == InitSeparator /\ [][NextParse]_vars

Unseparated(text) == SelectSeq(text, LAMBDA c : c # "_")

\* The digits of the radix a literal is written in.
RadixDigits(text) ==
    LET hex == {"0", "1", "2", "3", "4", "5", "6", "7", "8", "9",
                "a", "b", "c", "d", "e", "f", "A", "B", "C", "D", "E", "F"}
        prefix == IF Len(text) >= 2 /\ text[1] = "0" THEN text[2] ELSE ""
    IN CASE prefix \in {"x", "X"} -> hex
         [] prefix \in {"b", "B"} -> {"0", "1"}
         [] prefix \in {"o", "O"} -> {"0", "1", "2", "3", "4", "5", "6", "7"}
         [] OTHER -> {"0", "1", "2", "3", "4", "5", "6", "7", "8", "9"}

\* Every separator of the text stands between two digits of the radix.
BetweenDigits(text) ==
    \A i \in DOMAIN text :
        text[i] = "_" =>
            /\ 1 < i /\ i < Len(text)
            /\ text[i - 1] \in RadixDigits(Unseparated(text))
            /\ text[i + 1] \in RadixDigits(Unseparated(text))

\* C16: with separators enabled, when parse of a numeric literal has ended,
\* it has returned the value of the literal without its separators if every
\* separator stands between two digits of the radix, and otherwise
\* tokenization has raised a LexerError with code INVALID_SEPARATOR.
C16_SeparatorPlacement ==
    pc \in {"returned", "thrown"} =>
        IF BetweenDigits(source)
        THEN /\ pc = "returned"
             /\ \A base \in SeparatorBases :
                    base.text = Unseparated(source) => returned = base.value
        ELSE /\ pc = "thrown"
             /\ thrown.kind = "LexerError"
             /\ thrown.code = "INVALID_SEPARATOR"

\* 1._5, a separator directly after the decimal point, is returned as 1.5.
C16_Witness ==
    /\ source = <<"1", ".", "_", "5">>
    /\ pc = "returned"
    /\ returned = Float("1.5")

\* 1_000_000 is 1000000, and 1__000, 1000_ and 0x_FF are LexerErrors.
C16_Examples ==
    \/ source = <<"1", "_", "0", "0", "0", "_", "0", "0", "0">> /\ returned = Num(1000000)
    \/ /\ source \in {<<"1", "_", "_", "0", "0", "0">>, <<"1", "0", "0", "0", "_">>,
                       <<"0", "x", "_", "F", "F">>}
       /\ pc = "thrown"
       /\ thrown.code = "INVALID_SEPARATOR"

-----------------------------------------------------------------------------
(* parse of one literal that starts with 0 and goes on with digits *)

MaxDigits == 3

LegacyDigits == {"0", "1", "5", "7", "8", "9"}

\* 0 followed by 1..MaxDigits digits.
LegacyTexts ==
    UNION {{<<"0">> \o tail : tail \in [1..n -> LegacyDigits]} : n \in 1..MaxDigits}

InitLegacy ==
    /\ source \in LegacyTexts
    /\ tokens = <<>>
    /\ errors = <<>>
    /\ program = NoProgram
    /\ options \in {[Defaults EXCEPT !.strictOctal = b] : b \in BOOLEAN}
    /\ pc = "tokenize"
    /\ result = Undef
    /\ pass = 0
    /\ changed = FALSE
    /\ thrown = NoError
    /\ returned = Undef
    /\ calls = <<>>
    /\ lexerPos = 1
    /\ templateDepth = 0
    /\ written = <<>>
    /\ reparsed = Undef

SpecLegacy == InitLegacy /\ [][NextParse]_vars

\* The number a sequence of decimal digit characters stands for in a radix.
RECURSIVE Reading(_, _)
Reading(digits, radix) ==
    IF digits = <<>> THEN 0
    ELSE Reading(SubSeq(digits, 1, Len(digits) - 1), radix) * radix
         + (CHOOSE d \in 0..9 : ToString(d) = digits[Len(digits)])

\* C17: with strictOctal off, parse of a literal that is 0 followed by
\* further digits returns the octal value of its digits when all of them are
\* 0-7, and the decimal value of all of its digits when an 8 or a 9 is among
\* them; neither is an error.
C17_LegacyOctalOrDecimal ==
    (pc \in {"returned", "thrown"} /\ ~options.strictOctal) =>
        /\ pc = "returned"
        /\ returned = Num(IF \E k \in DOMAIN source : source[k] \in {"8", "9"}
                          THEN Reading(source, 10)
                          ELSE Reading(source, 8))

\* 0189 is returned as 89: the digits before the 8 are lost.
C17_Witness ==
    /\ source = <<"0", "1", "8", "9">>
    /\ ~options.strictOctal
    /\ pc = "returned"
    /\ returned = Num(89)

\* 0755 is 493 and 0899 is 899, and with strictOctal on both are LexerErrors.
C17_Examples ==
    \/ source = <<"0", "7", "5", "5">> /\ returned = Num(493)
    \/ source = <<"0", "8", "9", "9">> /\ returned = Num(899)
    \/ /\ source \in {<<"0", "7", "5", "5">>, <<"0", "8", "9", "9">>}
       /\ options.strictOctal
       /\ pc = "thrown"
       /\ thrown.kind = "LexerError"
       /\ thrown.code = "INVALID_OCTAL"

-----------------------------------------------------------------------------
(* parse of a text that ends early, in or after a template *)

\* ~ab~   ~a${x}b~   ~${x}${y}~   ~a\nb~   [~a${b}~]   ~a${~b~}c~
\* (~ is the backtick), and {a:4,b:~p${a}q~}
TemplateBases ==
    {<<Backtick, "a", "b", Backtick>>,
     <<Backtick, "a", "$", "{", "x", "}", "b", Backtick>>,
     <<Backtick, "$", "{", "x", "}", "$", "{", "y", "}", Backtick>>,
     <<Backtick, "a", "\\", "n", "b", Backtick>>,
     <<"[", Backtick, "a", "$", "{", "b", "}", Backtick, "]">>,
     <<Backtick, "a", "$", "{", Backtick, "b", Backtick, "}", "c", Backtick>>,
     TemplateText}

\* Every text that is the beginning of one of them.
TemplateTexts == UNION {{SubSeq(t, 1, n) : n \in 0..Len(t)} : t \in TemplateBases}

InitTemplate ==
    /\ source \in TemplateTexts
    /\ tokens = <<>>
    /\ errors = <<>>
    /\ program = NoProgram
    /\ options \in ParseOptionSets
    /\ pc = "tokenize"
    /\ result = Undef
    /\ pass = 0
    /\ changed = FALSE
    /\ thrown = NoError
    /\ returned = Undef
    /\ calls = <<>>
    /\ lexerPos = 1
    /\ templateDepth = 0
    /\ written = <<>>
    /\ reparsed = Undef

SpecTemplate == InitTemplate /\ [][NextParse]_vars

\* The text ends with a template open: read from the left, with the stack of
\* what is open ("t" the text of a template, "i" an interpolation), something
\* is still open at the end.
TemplateOpenAtEnd(text) ==
    LET RECURSIVE Open(_, _)
        Open(i, stack) ==
            LET top == IF stack = <<>> THEN "" ELSE stack[Len(stack)]
                pop == SubSeq(stack, 1, Len(stack) - 1)
            IN IF i > Len(text) THEN stack # <<>>
               ELSE IF top = "t"
               THEN CASE text[i] = "\\" -> Open(i + 2, stack)
                      [] text[i] = Backtick -> Open(i + 1, pop)
                      [] text[i] = "$" /\ i < Len(text) /\ text[i + 1] = "{" ->
                             Open(i + 2, Append(stack, "i"))
                      [] OTHER -> Open(i + 1, stack)
               ELSE CASE text[i] = Backtick -> Open(i + 1, Append(stack, "t"))
                      [] text[i] = "}" /\ top = "i" -> Open(i + 1, pop)
                      [] OTHER -> Open(i + 1, stack)
    IN Open(1, <<>>)

Count(toks, type) == Cardinality({i \in DOMAIN toks : toks[i].type = type})

\* C18: once tokenization of a text that ends with a template open is over,
\* it has raised the LexerError "Unterminated template literal"; and the
\* tokens of a tokenization that completed never hold a template head
\* without its tail.
C18_UnterminatedTemplate ==
    pc # "tokenize" =>
        /\ TemplateOpenAtEnd(source) =>
               /\ tokens = <<>>
               /\ pc = "thrown"
               /\ thrown.kind = "LexerError"
               /\ thrown.code = "UNTERMINATED_TEMPLATE"
        /\ Count(tokens, "TemplateHead") = Count(tokens, "TemplateTail")

\* ~a${x (the text ends inside the interpolation) is tokenized to the end,
\* with a head and no tail, and it is the parser that fails.
C18_Witness ==
    /\ source = <<Backtick, "a", "$", "{", "x">>
    /\ Count(tokens, "TemplateHead") = 1
    /\ Count(tokens, "TemplateTail") = 0
    /\ tokens[Len(tokens)].type = "EOF"
    /\ pc = "thrown"
    /\ thrown.kind = "SyntaxError"

\* A text that ends inside the text of a template, before or after an
\* interpolation, is the LexerError.
C18_EndInText ==
    /\ source \in {<<Backtick, "a">>, <<Backtick, "a", "$", "{", "x", "}", "b">>}
    /\ pc = "thrown"
    /\ thrown.code = "UNTERMINATED_TEMPLATE"

-----------------------------------------------------------------------------
(* parse of a document with one comment in a body *)

\* {a:1,b:2}   [1,2]   {a:[1],}   and the values they stand for
CommentBases ==
    {[text |-> <<"{", "a", ":", "1", ",", "b", ":", "2", "}">>,
      value |-> Obj(<<"1">>, <<"a", "b">>, <<Num(1), Num(2)>>)],
     [text |-> <<"[", "1", ",", "2", "]">>,
      value |-> Arr(<<"1">>, <<Num(1), Num(2)>>)],
     [text |-> <<"{", "a", ":", "[", "1", "]", ",", "}">>,
      value |-> Obj(<<"1">>, <<"a">>, <<Arr(<<"1", "a">>, <<Num(1)>>)>>)]}

\* /*c*/ and //c with its line end
Comments == {<<"/", "*", "c", "*", "/">>, <<"/", "/", "c", "\n">>}

\* The text with the comment put in after its first i characters.
Commented(text, i, comment) == SubSeq(text, 1, i) \o comment \o SubSeq(text, i + 1, Len(text))

\* The comment is put anywhere between the two outermost delimiters.
CommentTexts ==
    UNION {{Commented(base.text, i, comment) :
                i \in 1..(Len(base.text) - 1), comment \in Comments} :
           base \in CommentBases}

InitComment ==
    /\ source \in CommentTexts \cup {base.text : base \in CommentBases}
    /\ tokens = <<>>
    /\ errors = <<>>
    /\ program = NoProgram
    /\ options \in {[Defaults EXCEPT !.preserveComments = b] : b \in BOOLEAN}
    /\ pc = "tokenize"
    /\ result = Undef
    /\ pass = 0
    /\ changed = FALSE
    /\ thrown = NoError
    /\ returned = Undef
    /\ calls = <<>>
    /\ lexerPos = 1
    /\ templateDepth = 0
    /\ written = <<>>
    /\ reparsed = Undef

SpecComment == InitComment /\ [][NextParse]_vars

\* C19: when parse of a document with a comment anywhere inside an object or
\* array body has ended, it has returned the value of the document without
\* the comment, whether the tokenizer keeps comments (preserveComments) or
\* filters them.
C19_CommentsSkipped ==
    pc \in {"returned", "thrown"} =>
        \A base \in CommentBases, comment \in Comments :
            \A i \in 1..(Len(base.text) - 1) :
                source = Commented(base.text, i, comment) =>
                    /\ pc = "returned"
                    /\ errors = <<>>
                    /\ returned = base.value

\* {a/*c*/:1,b:2} with preserveComments: the comment between key and colon
\* is a parse error.
C19_Witness ==
    /\ source = <<"{", "a", "/", "*", "c", "*", "/", ":", "1", ",", "b", ":", "2", "}">>
    /\ options.preserveComments
    /\ pc = "thrown"
    /\ thrown.kind = "SyntaxError"
    /\ errors[1].message = "Expected COLON, got BLOCK_COMMENT"

\* With the comments filtered by the tokenizer the claim holds at every
\* position, and with preserveComments it holds wherever the comment is not
\* inside a property (after the key or after the colon).
C19_OutsideProperties ==
    pc \in {"returned", "thrown"} =>
        \A base \in CommentBases, comment \in Comments :
            \A i \in 1..(Len(base.text) - 1) :
                (/\ source = Commented(base.text, i, comment)
                 /\ \/ ~options.preserveComments
                    \/ ~(base.text[i] = ":" \/ base.text[i + 1] = ":")) =>
                    /\ pc = "returned"
                    /\ errors = <<>>
                    /\ returned = base.value

-----------------------------------------------------------------------------
(* parse of an object or an array with commas anywhere in its body *)

MaxBody == 5

\* A body is a sequence of items ("v") and commas with no two items side by
\* side.
Bodies ==
    UNION {{body \in [1..n -> {"v", ","}] :
                \A k \in 1..(n - 1) : ~(body[k] = "v" /\ body[k + 1] = "v")} :
           n \in 0..MaxBody}

\* The number of items among the first k places of a body.
ItemsTo(body, k) == Cardinality({j \in 1..k : body[j] = "v"})

ItemKeys == <<"a", "b", "c">>
ItemDigits == <<"1", "2", "3">>

\* The text of a body: the n-th item is the n-th digit, in an object after
\* the n-th key and a colon.
BodyText(body, object) ==
    LET RECURSIVE From(_)
        From(k) ==
            IF k > Len(body) THEN <<>>
            ELSE (IF body[k] = "," THEN <<",">>
                  ELSE IF object
                  THEN <<ItemKeys[ItemsTo(body, k)], ":", ItemDigits[ItemsTo(body, k)]>>
                  ELSE <<ItemDigits[ItemsTo(body, k)]>>) \o From(k + 1)
    IN (IF object THEN <<"{">> ELSE <<"[">>) \o From(1) \o (IF object THEN <<"}">> ELSE <<"]">>)

\* The value of a body of n items.
BodyValue(n, object) ==
    IF object
    THEN Obj(<<"1">>, SubSeq(ItemKeys, 1, n), [j \in 1..n |-> Num(j)])
    ELSE Arr(<<"1">>, [j \in 1..n |-> Num(j)])

InitComma ==
    /\ source \in {BodyText(body, object) : body \in Bodies, object \in BOOLEAN}
    /\ tokens = <<>>
    /\ errors = <<>>
    /\ program = NoProgram
    /\ options \in ParseOptionSets
    /\ pc = "tokenize"
    /\ result = Undef
    /\ pass = 0
    /\ changed = FALSE
    /\ thrown = NoError
    /\ returned = Undef
    /\ calls = <<>>
    /\ lexerPos = 1
    /\ templateDepth = 0
    /\ written = <<>>
    /\ reparsed = Undef

SpecComma == InitComma /\ [][NextParse]_vars

\* Every comma of the body comes directly after an item: none leads, none
\* is doubled, and one may trail.
CommasFollowItems(body) ==
    \A k \in DOMAIN body : body[k] = "," => (k > 1 /\ body[k - 1] = "v")

\* C20: when parse of an object or array has ended, then if every comma of
\* its body separates two items or trails the last one the value of the
\* items has been returned with no error, and otherwise (a leading comma, a
\* doubled comma, a comma alone in the body) the parser has recorded an error,
\* which in fail-fast mode is thrown as a SyntaxError.
C20_TrailingComma ==
    pc \in {"returned", "thrown"} =>
        \A body \in Bodies, object \in BOOLEAN :
            source = BodyText(body, object) =>
                IF CommasFollowItems(body)
                THEN /\ pc = "returned"
                     /\ errors = <<>>
                     /\ returned = BodyValue(ItemsTo(body, Len(body)), object)
                ELSE /\ errors # <<>>
                     /\ ~options.tolerant => pc = "thrown" /\ thrown.kind = "SyntaxError"

\* {a:1,b:2,} has been returned as {a: 1, b: 2}.
C20_Witness ==
    /\ source = <<"{", "a", ":", "1", ",", "b", ":", "2", ",", "}">>
    /\ pc = "returned"
    /\ returned = Obj(<<"1">>, <<"a", "b">>, <<Num(1), Num(2)>>)

\* {,} and [1,,2] have been rejected.
C20_StrayComma ==
    /\ source \in {<<"{", ",", "}">>, <<"[", "1", ",", ",", "2", "]">>}
    /\ pc = "thrown"
    /\ errors # <<>>

-----------------------------------------------------------------------------
(* The automatic upgrade of integer literals, under SpecNumber *)

\* C29: with strictBigInt off, parse of a pure integer literal whose
\* magnitude exceeds 2^53 - 1 (any radix, either sign, with or without a
\* separator) does not end in an error, and a bigint it returns is the exact
\* value of the literal's digits in its radix, with its sign.
C29_ExactUpgrade ==
    (pc \in {"returned", "thrown"} /\ ~options.strictBigInt) =>
        \A form \in IntegerForms, sign \in Signs :
            \A digits \in NearLimit(form) :
                \E exact \in {ToDecimal(digits, FormRadix(form))} :
                    (/\ Greater(exact, MAX_SAFE_INTEGER)
                     /\ \/ source = sign \o FormPrefix(form) \o digits
                        \/ /\ form # "legacy"
                           /\ source = sign \o FormPrefix(form) \o Insert(digits, 1, "_")) =>
                        /\ pc = "returned"
                        /\ returned.t = "bigint" => returned = BigInteger(sign = <<"-">>, exact)

\* -0b1 and 53 zeros (-2^53) is upgraded with BigInt("-0b1000..."), which
\* throws a SyntaxError.
C29_Witness ==
    /\ source = <<"-", "0", "b", "1">> \o [i \in 1..53 |-> "0"]
    /\ ~options.strictBigInt
    /\ pc = "thrown"
    /\ thrown.kind = "SyntaxError"
    /\ errors = <<>>

\* For decimal literals and for positive hex, binary and 0o literals without
\* the digit E, separated or not, the upgrade is exact.
C29_ExactWhereRead ==
    (pc \in {"returned", "thrown"} /\ ~options.strictBigInt) =>
        \A form \in IntegerForms \ {"legacy"}, sign \in Signs :
            \A digits \in NearLimit(form) :
                \E exact \in {ToDecimal(digits, FormRadix(form))} :
                    (/\ Greater(exact, MAX_SAFE_INTEGER)
                     /\ form = "decimal" \/ (sign # <<"-">> /\ "E" \notin Range(digits))
                     /\ source \in {sign \o FormPrefix(form) \o digits,
                                    sign \o FormPrefix(form) \o Insert(digits, 1, "_")}) =>
                        /\ pc = "returned"
                        /\ returned = BigInteger(sign = <<"-">>, exact)

\* 9_007199254740993 has been returned as the bigint 9007199254740993.
C29_Separated ==
    /\ source = <<"9", "_", "0", "0", "7", "1", "9", "9", "2", "5", "4", "7", "4", "0", "9", "9", "3">>
    /\ pc = "returned"
    /\ returned.t = "bigint"

-----------------------------------------------------------------------------
(* Termination of evaluate, under SpecFair *)

\* C23: evaluate makes at most 3 resolve passes; a pass that resolved nothing
\* is the last one and a pass is followed by another only if it resolved
\* something and was not the third; and every evaluation ends, with a value
\* or with an exception.
C23_BoundedPasses ==
    /\ [](pass \in 0..3 /\ (pc = "resolve" => pass >= 1))
    /\ [][(pc = "resolve" /\ pc' # "thrown") =>
              /\ ~changed' => pc' = "check"
              /\ pc' = "resolve" => (changed' /\ pass < 3 /\ pass' = pass + 1)
              /\ pc' = "check" => pass' = pass]_vars
    /\ <>(pc \in {"returned", "thrown"})

\* A document whose references form a cycle has gone through all three
\* passes, each of which resolved something, and has ended in the error.
C23_Witness ==
    /\ Cyclic
    /\ pass = 3
    /\ changed
    /\ pc = "thrown"
    /\ thrown.kind = "Error"

-----------------------------------------------------------------------------
(* stringify (src/src/stringify.mts) and the round trip: SpecRoundTrip *)

\* Documents without references.
RoundTripTexts ==
    {<<"n", "u", "l", "l">>,
     <<"t", "r", "u", "e">>,
     <<"f", "a", "l", "s", "e">>,
     <<"\"", "s", "\"">>,
     <<"\"", "a", "\\", "n", "b", "\"">>,
     <<"\"", "a", "\\", "\"", "b", "\"">>,
     <<"\"", "a", "\\", "\\", "b", "\"">>,
     <<"'", "i", "t", "'">>,
     <<"4", "2">>,
     <<"-", "7">>,
     <<"1", ".", "5">>,
     <<"-", "0", ".", "2", "5">>,
     <<"0", ".", "0", "0", "0", "0", "0", "1">>,
     <<"1", "e", "-", "7">>,
     <<"1", "e", "2", "0">>,
     <<"1", "e", "2", "1">>,
     <<"2", ".", "5", "e", "2", "2">>,
     <<"9", "0", "0", "7", "1", "9", "9", "2", "5", "4", "7", "4", "0", "9", "9", "2", ".", "0">>,
     <<"I", "n", "f", "i", "n", "i", "t", "y">>,
     <<"-", "I", "n", "f", "i", "n", "i", "t", "y">>,
     <<"N", "a", "N">>,
     <<"1", "2", "n">>,
     <<"-", "1", "2", "n">>,
     <<"9", "0", "0", "7", "1", "9", "9", "2", "5", "4", "7", "4", "0", "9", "9", "3">>,
     <<"[", "]">>,
     <<"{", "}">>,
     <<"[", "1", ",", "\"", "s", "\"", "]">>,
     <<"{", "a", ":", "1", "}">>,
     <<"{", "\"", "a", " ", "b", "\"", ":", "1", "}">>,
     <<"{", "a", ":", "[", "1", ",", "{", "b", ":", "n", "u", "l", "l", "}", "]", "}">>,
     <<"{", "\"", "n", "u", "l", "l", "\"", ":", "1", "}">>,
     <<"[", "1", "e", "2", "0", "]">>,
     <<"{", "a", ":", "t", "r", "u", "e", ",", "b", ":", "\"", "s", "\"", "}">>}

\* The texts whose characters the model can take apart: the pieces of the
\* documents, the strings their escapes stand for and the expansions of
\* 1e-7 and of 9007199254740992.0.
KnownTexts ==
    UNION {{SubSeq(t, i, j) : i \in 1..Len(t), j \in 0..Len(t)} : t \in RoundTripTexts}
    \cup {<<"a", "\n", "b">>,
          <<"a", "\"", "b">>,
          <<"a", "\\", "b">>,
          <<"0", ".", "0", "0", "0", "0", "0", "0", "1">>,
          <<"9", "0", "0", "7", "1", "9", "9", "2", "5", "4", "7", "4", "0", "9", "9", "2">>}

\* The characters of a string.
CharsOf(s) == CHOOSE cs \in KnownTexts : Text(cs) = s

\* The decimal digits of a natural number, and of an integer with its sign.
RECURSIVE DigitsOf(_)
DigitsOf(n) == IF n < 10 THEN <<ToString(n)>> ELSE Append(DigitsOf(n \div 10), ToString(n % 10))
IntegerChars(n) == IF n < 0 THEN <<"-">> \o DigitsOf(-n) ELSE DigitsOf(n)

\* d.ddd e+x / e-x, the form String(number) takes from 1e21 on and below 1e-6
ExponentForm(digits, sign, e) ==
    <<digits[1]>> \o (IF Len(digits) > 1 THEN <<".">> \o Tail(digits) ELSE <<>>)
        \o <<"e", sign>> \o DigitsOf(e)

RECURSIVE WithoutTrailingZeros(_)
WithoutTrailingZeros(digits) ==
    IF Len(digits) > 1 /\ digits[Len(digits)] = "0"
    THEN WithoutTrailingZeros(SubSeq(digits, 1, Len(digits) - 1))
    ELSE digits

\* String(value) of a finite number, line 172: an integer below 1e21 by its
\* digits, a number from 1e-6 on by its decimal expansion, the others in the
\* exponent form.
NumberToString(value) ==
    IF "n" \in DOMAIN value THEN IntegerChars(value.n)
    ELSE IF "int" \in DOMAIN value
    THEN (IF value.neg THEN <<"-">> ELSE <<>>)
         \o (IF Len(value.int) <= 21 THEN value.int
             ELSE ExponentForm(WithoutTrailingZeros(value.int), "+", Len(value.int) - 1))
    ELSE LET cs == CharsOf(value.text)
             neg == cs[1] = "-"
             abs == IF neg THEN Tail(cs) ELSE cs
             point == CHOOSE i \in DOMAIN abs : abs[i] = "."
             frac == SubSeq(abs, point + 1, Len(abs))
             zeros == IF \E i \in DOMAIN frac : frac[i] # "0"
                      THEN (CHOOSE i \in DOMAIN frac :
                                frac[i] # "0" /\ \A j \in 1..(i - 1) : frac[j] = "0") - 1
                      ELSE 0
         IN IF SubSeq(abs, 1, point - 1) = <<"0">> /\ zeros >= 6
            THEN (IF neg THEN <<"-">> ELSE <<>>)
                 \o ExponentForm(SubSeq(frac, zeros + 1, Len(frac)), "-", zeros + 1)
            ELSE cs

\* stringifyString with the double quote (singleQuote is off by default).
\* The characters of the model other than the ones named are printable.
stringifyString(str) ==
    LET Escaped(char) ==
            CASE char = "\\" -> <<"\\", "\\">>
              [] char = "\f" -> <<"\\", "f">>
              [] char = "\n" -> <<"\\", "n">>
              [] char = "\r" -> <<"\\", "r">>
              [] char = "\t" -> <<"\\", "t">>
              [] char = "\"" -> <<"\\", "\"">>
              [] OTHER -> <<char>>
        RECURSIVE From(_)
        From(i) == IF i > Len(str) THEN <<>> ELSE Escaped(str[i]) \o From(i + 1)
    IN <<"\"">> \o From(1) \o <<"\"">>

\* stringifyBigInt with the default strategy "native" in mode "jsonv"
stringifyBigInt(value) ==
    (IF "n" \in DOMAIN value THEN IntegerChars(value.n)
     ELSE (IF value.neg THEN <<"-">> ELSE <<>>) \o value.int) \o <<"n">>

isValidIdentifier(key) ==
    /\ Len(key) > 0
    /\ isIdentifierStart(key[1])
    /\ \A i \in DOMAIN key : isIdentifierPart(key[i])

\* Stringifier.stringifyValue with the options of stringify(value): mode
\* "jsonv", no replacer, no indentation.
RECURSIVE stringifyValue(_)
stringifyValue(value) ==
    CASE value.t = "undef" -> <<"u", "n", "d", "e", "f", "i", "n", "e", "d">>
      [] value.t = "null" -> <<"n", "u", "l", "l">>
      [] value.t = "str" -> stringifyString(CharsOf(value.s))
      [] value.t = "num" ->
           IF value = NaN THEN <<"N", "a", "N">>
           ELSE IF value = Infinity THEN <<"I", "n", "f", "i", "n", "i", "t", "y">>
           ELSE IF value = NegInfinity THEN <<"-", "I", "n", "f", "i", "n", "i", "t", "y">>
           ELSE NumberToString(value)
      [] value.t = "bool" ->
           IF value.b THEN <<"t", "r", "u", "e">> ELSE <<"f", "a", "l", "s", "e">>
      [] value.t = "bigint" -> stringifyBigInt(value)
      [] value.t = "fn" -> <<"u", "n", "d", "e", "f", "i", "n", "e", "d">>
      [] value.t = "arr" ->
           LET RECURSIVE Elements(_)
               Elements(i) ==
                   IF i > Len(value.vs) THEN <<>>
                   ELSE (IF i > 1 THEN <<",">> ELSE <<>>)
                        \o stringifyValue(value.vs[i]) \o Elements(i + 1)
           IN <<"[">> \o Elements(1) \o <<"]">>
      [] OTHER ->
           LET keys == OwnKeys(value)
               Skipped(v) == v.t \in {"undef", "fn"}
               RECURSIVE Members(_, _)
               Members(i, first) ==
                   IF i > Len(keys) THEN <<>>
                   ELSE IF Skipped(GetOwn(value, keys[i])) THEN Members(i + 1, first)
                   ELSE (IF first THEN <<>> ELSE <<",">>)
                        \o (IF isValidIdentifier(CharsOf(keys[i])) THEN CharsOf(keys[i])
                            ELSE stringifyString(CharsOf(keys[i])))
                        \o <<":">> \o stringifyValue(GetOwn(value, keys[i]))
                        \o Members(i + 1, FALSE)
           IN <<"{">> \o Members(1, TRUE) \o <<"}">>

InitRoundTrip ==
    /\ source \in RoundTripTexts
    /\ tokens = <<>>
    /\ errors = <<>>
    /\ program = NoProgram
    /\ options = Defaults
    /\ pc = "tokenize"
    /\ result = Undef
    /\ pass = 0
    /\ changed = FALSE
    /\ thrown = NoError
    /\ returned = Undef
    /\ calls = <<>>
    /\ lexerPos = 1
    /\ templateDepth = 0
    /\ written = <<>>
    /\ reparsed = Undef

\* stringify(value) of the value parse has returned
Stringify ==
    /\ pc = "returned"
    /\ written' = stringifyValue(returned)
    /\ pc' = "stringified"
    /\ UNCHANGED <<source, tokens, errors, program, options, result, pass, changed, thrown,
                   returned, calls, lexerPos, templateDepth, reparsed>>

\* parse(text) of the text stringify has returned
Reparse ==
    /\ pc = "stringified"
    /\ reparsed' = parseWithOptions(written, Defaults)
    /\ pc' = "reparsed"
    /\ UNCHANGED <<source, tokens, errors, program, options, result, pass, changed, thrown,
                   returned, calls, lexerPos, templateDepth, written>>

NextRoundTrip ==
    \/ Tokenize \/ ParseStep \/ Report \/ Materialize \/ ResolveStep \/ CheckStep \/ ReviveStep
    \/ Stringify \/ Reparse

SpecRoundTrip == InitRoundTrip /\ [][NextRoundTrip]_vars

\* C21: the text stringify writes for the value of a reference-free document
\* is parsed back to an equal value.
C21_RoundTrip ==
    pc = "reparsed" => (reparsed.ok /\ Plain(reparsed.value) = Plain(returned))

\* 1e20 is parsed as the number 1e20, written as 100000000000000000000 and
\* parsed back as the bigint 100000000000000000000.
C21_Witness ==
    /\ source = <<"1", "e", "2", "0">>
    /\ pc = "reparsed"
    /\ returned.t = "num"
    /\ written = <<"1">> \o [i \in 1..20 |-> "0"]
    /\ reparsed.ok
    /\ reparsed.value.t = "bigint"

\* The round trip gives an equal value for every document whose value holds
\* no number that is an integer beyond the safe range and below 1e21.
RECURSIVE HoldsWideInteger(_)
HoldsWideInteger(v) ==
    \/ v.t = "num" /\ "int" \in DOMAIN v /\ Len(v.int) <= 21
    \/ v.t \in {"obj", "arr"} /\ \E i \in DOMAIN v.vs : HoldsWideInteger(v.vs[i])

C21_RoundTripElsewhere ==
    (pc = "reparsed" /\ ~HoldsWideInteger(returned)) =>
        (reparsed.ok /\ Plain(reparsed.value) = Plain(returned))

\* {a:[1,{b:null}]} has made the round trip.
C21_Nested ==
    /\ source = <<"{", "a", ":", "[", "1", ",", "{", "b", ":", "n", "u", "l", "l", "}", "]", "}">>
    /\ pc = "reparsed"
    /\ written = source
    /\ reparsed.ok
    /\ Plain(reparsed.value) = Plain(returned)

-----------------------------------------------------------------------------
(* The mode option: SpecMode *)

\* Texts of strict JSON:  {"a":1}   [1,2]   "s"   null   -1.5e2
StrictJsonTexts ==
    {<<"{", "\"", "a", "\"", ":", "1", "}">>,
     <<"[", "1", ",", "2", "]">>,
     <<"\"", "s", "\"">>,
     <<"n", "u", "l", "l">>,
     <<"-", "1", ".", "5", "e", "2">>}

\* Texts with a comment:  //c<newline>1   /*c*/1   [1/*c*/]
CommentedTexts ==
    {<<"/", "/", "c", "\n", "1">>,
     <<"/", "*", "c", "*", "/", "1">>,
     <<"[", "1", "/", "*", "c", "*", "/", "]">>}

\* Texts of JSON5 that are not JSON, comments apart:
\* [1,]   {"a":1,}   {a:1}   's'   0xFF   .5   +1   Infinity   NaN   -Infinity
Json5Texts ==
    {<<"[", "1", ",", "]">>,
     <<"{", "\"", "a", "\"", ":", "1", ",", "}">>,
     <<"{", "a", ":", "1", "}">>,
     <<"'", "s", "'">>,
     <<"0", "x", "F", "F">>,
     <<".", "5">>,
     <<"+", "1">>,
     <<"I", "n", "f", "i", "n", "i", "t", "y">>,
     <<"N", "a", "N">>,
     <<"-", "I", "n", "f", "i", "n", "i", "t", "y">>}

\* Texts that use an extension of jsonv:
\* {"a":1,"b":a}   ~ab~   {"a":1,"b":~p${a}q~}   0b11   0o17   12n   1_000
ExtensionTexts ==
    {<<"{", "\"", "a", "\"", ":", "1", ",", "\"", "b", "\"", ":", "a", "}">>,
     <<Backtick, "a", "b", Backtick>>,
     <<"{", "\"", "a", "\"", ":", "1", ",", "\"", "b", "\"", ":",
       Backtick, "p", "$", "{", "a", "}", "q", Backtick, "}">>,
     <<"0", "b", "1", "1">>,
     <<"0", "o", "1", "7">>,
     <<"1", "2", "n">>,
     <<"1", "_", "0", "0", "0">>}

ModeTexts == StrictJsonTexts \cup CommentedTexts \cup Json5Texts \cup ExtensionTexts

Modes == {"jsonv", "json5", "json"}

InitMode ==
    /\ source \in ModeTexts
    /\ tokens = <<>>
    /\ errors = <<>>
    /\ program = NoProgram
    /\ options \in {[Defaults EXCEPT !.mode = m] : m \in Modes}
    /\ pc = "tokenize"
    /\ result = Undef
    /\ pass = 0
    /\ changed = FALSE
    /\ thrown = NoError
    /\ returned = Undef
    /\ calls = <<>>
    /\ lexerPos = 1
    /\ templateDepth = 0
    /\ written = <<>>
    /\ reparsed = Undef

SpecMode == InitMode /\ [][NextParse]_vars

\* C22: with mode "json" a text that is not strict JSON is never returned,
\* and with mode "json5" a text that uses an extension of jsonv is never
\* returned.
C22_ModeRestricts ==
    pc = "returned" =>
        /\ options.mode = "json" => source \in StrictJsonTexts
        /\ options.mode = "json5" => source \notin ExtensionTexts

\* {"a":1,"b":a} has been returned as {a: 1, b: 1} with mode "json".
C22_Witness ==
    /\ source = <<"{", "\"", "a", "\"", ":", "1", ",", "\"", "b", "\"", ":", "a", "}">>
    /\ options.mode = "json"
    /\ pc = "returned"
    /\ Plain(returned) = PlainObject(<<Num(1), Num(1)>>)

\* 0b11 has been returned as 3 with mode "json5".
C22_Json5Binary ==
    /\ source = <<"0", "b", "1", "1">>
    /\ options.mode = "json5"
    /\ pc = "returned"
    /\ returned = Num(3)

\* What the mode does: with "json" a text with a comment is the LexerError
\* "Comments not allowed in JSON mode"; every other text has, under each
\* mode, the outcome it has under "jsonv".
C22_CommentsOnly ==
    pc \in {"returned", "thrown"} =>
        IF options.mode = "json" /\ source \in CommentedTexts
        THEN pc = "thrown" /\ thrown.kind = "LexerError" /\ thrown.code = "COMMENTS_NOT_ALLOWED"
        ELSE /\ pc = "returned" <=> parseWithOptions(source, Defaults).ok
             /\ pc = "returned" => returned = parseWithOptions(source, Defaults).value

\* /*c*/1 with mode "json" is the LexerError.
C22_CommentRejected ==
    /\ source = <<"/", "*", "c", "*", "/", "1">>
    /\ options.mode = "json"
    /\ pc = "thrown"
    /\ thrown.code = "COMMENTS_NOT_ALLOWED"

-----------------------------------------------------------------------------
(* Parser.parse on any sequence of tokens that ends with EOF: SpecTokens *)

\* The tokens of three texts:  {a:[1,b.c]}   ~p${x}q${y}r~   -0x20000000000001
TokenSources ==
    {<<"{", "a", ":", "[", "1", ",", "b", ".", "c", "]", "}">>,
     <<Backtick, "p", "$", "{", "x", "}", "q", "$", "{", "y", "}", "r", Backtick>>,
     <<"-", "0", "x", "2", "0", "0", "0", "0", "0", "0", "0", "0", "0", "0", "0", "0", "1">>}

\* One token of each type met in them, the end-of-input token apart.
TokenAlphabet ==
    LET all == UNION {Range(tokenize(text, LexerOptions(Defaults)).value) : text \in TokenSources}
        types == {token.type : token \in all} \ {"EOF"}
    IN {CHOOSE token \in all :
            /\ token.type = type
            /\ type = "Number" => token.raw = "1"
            /\ type = "Identifier" => token.raw = "a" : type \in types}
       \cup {token \in all : token.type = "Number"}

EndOfInputToken == tokenize(<<>>, LexerOptions(Defaults)).value[1]

MaxTokens == 4

InitTokens ==
    /\ source = <<>>
    /\ \E n \in 0..MaxTokens : \E toks \in [1..n -> TokenAlphabet] :
           tokens = Append(toks, EndOfInputToken)
    /\ errors = <<>>
    /\ program = NoProgram
    /\ options \in ParseOptionSets
    /\ pc = "parse"
    /\ result = Undef
    /\ pass = 0
    /\ changed = FALSE
    /\ thrown = NoError
    /\ returned = Undef
    /\ calls = <<>>
    /\ lexerPos = 1
    /\ templateDepth = 0
    /\ written = <<>>
    /\ reparsed = Undef

NextTokens == ParseStep \/ Report

SpecTokens == InitTokens /\ [][NextTokens]_vars

\* The parser when parseValue has returned to parse.
AfterRootValue ==
    parseValue([tokens |-> tokens, current |-> 1, errors |-> <<>>, thrown |-> NoError,
                tolerant |-> options.tolerant, strictBigInt |-> options.strictBigInt]).ps

\* Parser.parse has been left, by a return or by an exception.
ParseLeft == pc # "parse"

\* C30: on every token sequence that ends with the end-of-input token, in
\* fail-fast and in tolerant mode, Parser.parse returns a tree, and its cursor
\* is on a token of the sequence.
C30_ParserReturnsTree ==
    ParseLeft => (program # NoProgram /\ AfterRootValue.current \in 1..Len(tokens))

\* The tokens of -0x20000000000001 in tolerant mode: the parser has been left
\* by the SyntaxError of BigInt, with no tree and no error recorded.
C30_Witness ==
    /\ Len(tokens) = 2
    /\ tokens[1].raw = "-0x20000000000001"
    /\ options.tolerant
    /\ pc = "thrown"
    /\ program = NoProgram
    /\ thrown.kind = "SyntaxError"
    /\ errors = <<>>

\* On every sequence parseValue comes back (each loop of the parser consumes
\* a token or is left), with the cursor on a token of the sequence; and
\* unless a number token outside the safe range takes the parser to BigInt,
\* parse returns a tree.
C30_TerminatesWithinTokens ==
    /\ AfterRootValue.current \in 1..Len(tokens)
    /\ (ParseLeft /\ \A i \in DOMAIN tokens : ~OutsideSafeRange(tokens[i])) =>
           program # NoProgram

\* { a : [ has been parsed in tolerant mode: every loop was left at the end
\* of the input, the cursor is on EOF and the tree is returned with the
\* errors.
C30_OpenAtEnd ==
    /\ Len(tokens) = 5
    /\ <<tokens[1].type, tokens[2].type, tokens[3].type, tokens[4].type>>
           = <<"{", "Identifier", ":", "[">>
    /\ options.tolerant
    /\ pc = "report"
    /\ AfterRootValue.current = 5
    /\ program.type = "ObjectExpression"
    /\ Len(errors) > 0

-----------------------------------------------------------------------------
(* The shape of TemplateLiteral nodes, under SpecTemplate *)

\* The TemplateLiteral nodes of a tree, at any depth.
RECURSIVE TemplateNodes(_)
TemplateNodes(node) ==
    CASE node.type = "TemplateLiteral" ->
           {node} \cup UNION {TemplateNodes(node.expressions[i]) : i \in DOMAIN node.expressions}
      [] node.type = "ObjectExpression" ->
           UNION {TemplateNodes(node.properties[i].value) : i \in DOMAIN node.properties}
      [] node.type = "ArrayExpression" ->
           UNION {TemplateNodes(node.elements[i]) : i \in DOMAIN node.elements}
      [] OTHER -> {}

\* C27: every TemplateLiteral node of the tree the parser has produced, in
\* fail-fast and in tolerant mode, with or without a syntax error, has one
\* more quasi than expressions.
C27_QuasisOneMore ==
    \A node \in TemplateNodes(program) : Len(node.quasis) = Len(node.expressions) + 1

\* ~a${x has been parsed in tolerant mode: the error is recorded and the node
\* has the quasi of the head and the expression x, one of each.
C27_Witness ==
    /\ source = <<Backtick, "a", "$", "{", "x">>
    /\ options.tolerant
    /\ pc = "report"
    /\ Len(errors) = 1
    /\ program.type = "TemplateLiteral"
    /\ Len(program.quasis) = 1
    /\ Len(program.expressions) = 1

\* A tree produced without an error has one more quasi than expressions in
\* each of its TemplateLiteral nodes.
C27_WithoutError ==
    errors = <<>> => C27_QuasisOneMore

\* ~${x}${y}~ has been parsed without an error: three quasis, two expressions.
C27_TwoExpressions ==
    /\ source = <<Backtick, "$", "{", "x", "}", "$", "{", "y", "}", Backtick>>
    /\ errors = <<>>
    /\ program.type = "TemplateLiteral"
    /\ Len(program.quasis) = 3
    /\ Len(program.expressions) = 2

-----------------------------------------------------------------------------
(* Lexer.tokenize, token by token: SpecLexer *)

\* ~a${x}b~   ~${x}${y}~   ~a${~b${x}~}c~   {a:~p${a}q~}   ~${{a:1}}~
\* {a:{b:1}}   {a:"}"}   ~a}b~   [1]}   ~${x}}~   (~ is the backtick)
LexerBases ==
    {<<Backtick, "a", "$", "{", "x", "}", "b", Backtick>>,
     <<Backtick, "$", "{", "x", "}", "$", "{", "y", "}", Backtick>>,
     <<Backtick, "a", "$", "{", Backtick, "b", "$", "{", "x", "}", Backtick, "}", "c", Backtick>>,
     <<"{", "a", ":", Backtick, "p", "$", "{", "a", "}", "q", Backtick, "}">>,
     <<Backtick, "$", "{", "{", "a", ":", "1", "}", "}", Backtick>>,
     <<"{", "a", ":", "{", "b", ":", "1", "}", "}">>,
     <<"{", "a", ":", "\"", "}", "\"", "}">>,
     <<Backtick, "a", "}", "b", Backtick>>,
     <<"[", "1", "]", "}">>,
     <<Backtick, "$", "{", "x", "}", "}", Backtick>>}

LexerTexts == UNION {{SubSeq(t, 1, n) : n \in 0..Len(t)} : t \in LexerBases}

InitLexer ==
    /\ source \in LexerTexts
    /\ tokens = <<>>
    /\ errors = <<>>
    /\ program = NoProgram
    /\ options \in {[Defaults EXCEPT !.preserveComments = c] : c \in BOOLEAN}
    /\ pc = "tokenize"
    /\ result = Undef
    /\ pass = 0
    /\ changed = FALSE
    /\ thrown = NoError
    /\ returned = Undef
    /\ calls = <<>>
    /\ lexerPos = 1
    /\ templateDepth = 0
    /\ written = <<>>
    /\ reparsed = Undef

\* One iteration of the loop of tokenize: skipWhitespace, the end test,
\* nextToken and the push of the token.
NextTokenStep ==
    /\ pc = "tokenize"
    /\ skipWhitespace(source, lexerPos) <= Len(source)
    /\ \E r \in {nextToken(source, skipWhitespace(source, lexerPos), LexerOptions(options),
                            templateDepth)} :
          IF r.ok
          THEN /\ tokens' = IF /\ r.token.type \in {"LineComment", "BlockComment"}
                               /\ ~options.preserveComments
                            THEN tokens ELSE Append(tokens, r.token)
               /\ lexerPos' = r.pos
               /\ templateDepth' = r.depth
               /\ UNCHANGED <<pc, thrown>>
          ELSE /\ pc' = "thrown"
               /\ thrown' = r.error
               /\ UNCHANGED <<tokens, lexerPos, templateDepth>>
    /\ UNCHANGED <<source, errors, program, options, result, pass, changed, returned, calls,
                   written, reparsed>>

\* The end of the loop and the push of EOF.
EndOfInput ==
    /\ pc = "tokenize"
    /\ skipWhitespace(source, lexerPos) > Len(source)
    /\ tokens' = Append(tokens, createToken("EOF", Null, "", skipWhitespace(source, lexerPos)))
    /\ lexerPos' = skipWhitespace(source, lexerPos)
    /\ pc' = "parse"
    /\ UNCHANGED <<source, errors, program, options, result, pass, changed, thrown, returned,
                   calls, templateDepth, written, reparsed>>

NextLexer == NextTokenStep \/ EndOfInput

SpecLexer == InitLexer /\ [][NextLexer]_vars

\* The character nextToken is called at.
CharAtPos == peek(source, skipWhitespace(source, lexerPos))

\* The step has emitted a token: the last of tokens'.
Emitted == pc = "tokenize" /\ pc' = "tokenize" /\ Len(tokens') = Len(tokens) + 1

\* C26: a } is emitted as a close-brace token exactly when templateDepth is
\* 0; at a greater depth the } gives a template middle with the depth
\* unchanged or a template tail with the depth one less; and at every point
\* templateDepth is the number of template heads emitted minus the number of
\* template tails emitted, and is not negative.
C26_TemplateDepth ==
    /\ [](/\ templateDepth = Count(tokens, "TemplateHead") - Count(tokens, "TemplateTail")
          /\ templateDepth >= 0)
    /\ [][Emitted =>
            LET token == tokens'[Len(tokens')]
            IN /\ token.type = "}" <=> (CharAtPos = "}" /\ templateDepth = 0)
               /\ (CharAtPos = "}" /\ templateDepth > 0) =>
                     \/ token.type = "TemplateMiddle" /\ templateDepth' = templateDepth
                     \/ token.type = "TemplateTail" /\ templateDepth' = templateDepth - 1
               /\ token.type \in {"TemplateMiddle", "TemplateTail"} => CharAtPos = "}"]_vars

\* In ~${x}${y}~ the first } has given a template middle at depth 1.
C26_Witness ==
    /\ source = <<Backtick, "$", "{", "x", "}", "$", "{", "y", "}", Backtick>>
    /\ Len(tokens) = 3
    /\ tokens[3].type = "TemplateMiddle"
    /\ templateDepth = 1
    /\ lexerPos = 8

\* In ~${{a:1}}~ the } of the object has ended the interpolation: it has given
\* the template tail, and the } after it is the text of that tail.
C26_ObjectInInterpolation ==
    /\ source = <<Backtick, "$", "{", "{", "a", ":", "1", "}", "}", Backtick>>
    /\ pc = "parse"
    /\ Len(tokens) = 7
    /\ tokens[6].type = "TemplateTail"
    /\ tokens[6].value = Str("}")
    /\ templateDepth = 0

-----------------------------------------------------------------------------
(* Declaration order, under SpecOrder *)

\* What stands under a key of the documents whose properties are reordered.
OrderValues ==
    {Literal(Num(42)), Literal(Str("s")), Identifier("a"), Identifier("b"), Identifier("c"),
     Identifier("u"), MemberExpression(Identifier("a"), "x"),
     TemplateLiteral(Quasis2, <<Identifier("b")>>),
     ArrayExpression(<<Identifier("c")>>),
     ObjectExpression(<<Property("x", Identifier("b")), Property("y", Literal(Num(42)))>>)}

OrderDocuments == {RootObject(vals) : vals \in [1..3 -> OrderValues]}

InitOrder ==
    /\ source = <<>>
    /\ tokens = <<>>
    /\ errors = <<>>
    /\ program \in OrderDocuments
    /\ options \in {[Defaults EXCEPT !.allowInternalReferences = a] : a \in BOOLEAN}
    /\ pc = "evaluate"
    /\ result = Undef
    /\ pass = 0
    /\ changed = FALSE
    /\ thrown = NoError
    /\ returned = Undef
    /\ calls = <<>>
    /\ lexerPos = 1
    /\ templateDepth = 0
    /\ written = <<>>
    /\ reparsed = Undef

SpecOrder == InitOrder /\ [][Next]_vars

Perms(n) == {f \in [1..n -> 1..n] : \A i, j \in 1..n : i # j => f[i] # f[j]}

\* The documents that differ from node only in the order of the properties of
\* its objects, at any depth.
RECURSIVE Reorderings(_)
Reorderings(node) ==
    CASE node.type = "ObjectExpression" ->
           LET n == Len(node.properties)
               each == [i \in 1..n |-> Reorderings(node.properties[i].value)]
               inner == {vs \in [1..n -> UNION Range(each)] : \A i \in 1..n : vs[i] \in each[i]}
           IN {ObjectExpression([i \in 1..n |-> Property(node.properties[f[i]].key, vs[f[i]])]) :
                  f \in Perms(n), vs \in inner}
      [] node.type = "ArrayExpression" ->
           LET n == Len(node.elements)
               each == [i \in 1..n |-> Reorderings(node.elements[i])]
           IN {ArrayExpression(vs) :
                  vs \in {w \in [1..n -> UNION Range(each)] : \A i \in 1..n : w[i] \in each[i]}}
      [] OTHER -> {node}

\* A value as its mapping from keys to values: without the order of the keys
\* and without the identities of the objects.
RECURSIVE Mapping(_)
Mapping(v) ==
    CASE v.t = "obj" ->
           [t |-> "obj", m |-> [k \in Range(v.ks) |-> Mapping(v.vs[IndexOf(v.ks, k)])]]
      [] v.t = "arr" -> [t |-> "arr", vs |-> [i \in DOMAIN v.vs |-> Mapping(v.vs[i])]]
      [] v.t = "unres" -> [t |-> "unres", path |-> v.path]
      [] v.t = "ast" -> [t |-> "ast", node |-> v.node]
      [] OTHER -> v

\* The outcome of an evaluation that has reached the reviver walk or has been
\* abandoned: the mapping, or the kind of exception.
Outcome(r) ==
    IF r.ok THEN [ok |-> TRUE, mapping |-> Mapping(r.value)]
    ELSE [ok |-> FALSE, kind |-> r.error.kind]

-----------------------------------------------------------------------------
(* Documents in which several references lead to one container *)

\* {a: {x: [42], y: r1, z: r2}, b: r3, c: r4}: with b: a.x and c: b the
\* references to c are resolved in the third resolve pass.
ShareDocuments ==
    {RootObject(<<ObjectExpression(<<Property("x", ArrayExpression(<<Literal(Num(42))>>)),
                                     Property("y", r1), Property("z", r2)>>),
                  r3, r4>>) :
        r1 \in {Literal(Num(42)), Identifier("b"), Identifier("c")},
        r2 \in {Literal(Str("s")), Identifier("b"), Identifier("c")},
        r3 \in {Literal(Num(42)), MemberExpression(Identifier("a"), "x")},
        r4 \in {Literal(Num(42)), Identifier("b"), MemberExpression(Identifier("a"), "x")}}

InitShare ==
    /\ source = <<>>
    /\ tokens = <<>>
    /\ errors = <<>>
    /\ program \in ShareDocuments
    /\ options \in OptionSets
    /\ pc = "evaluate"
    /\ result = Undef
    /\ pass = 0
    /\ changed = FALSE
    /\ thrown = NoError
    /\ returned = Undef
    /\ calls = <<>>
    /\ lexerPos = 1
    /\ templateDepth = 0
    /\ written = <<>>
    /\ reparsed = Undef

SpecShare == InitShare /\ [][Next]_vars

\* The identity of every array and object met on a walk of the value, once
\* for every path that leads to it.
RECURSIVE Instances(_)
Instances(v) ==
    IF v.t \notin {"obj", "arr"} THEN <<>>
    ELSE LET RECURSIVE Below(_)
             Below(i) == IF i > Len(v.vs) THEN <<>>
                         ELSE Instances(v.vs[i]) \o Below(i + 1)
         IN <<v.id>> \o Below(1)

NoRepeat(ids) == \A i, j \in DOMAIN ids : i # j => ids[i] # ids[j]

\* The identities of the containers the reviver was called on, call by call.
Revisited ==
    LET RECURSIVE From(_)
        From(i) == IF i > Len(calls) THEN <<>>
                   ELSE (IF calls[i].value.t \in {"obj", "arr"}
                         THEN <<calls[i].value.id>> ELSE <<>>) \o From(i + 1)
    IN From(1)

\* C28: a returned value is a tree (no array or object instance is met on
\* two paths), and the reviver has been called on each container once.
C28_ReturnedTree ==
    pc = "returned" => (NoRepeat(Instances(returned)) /\ NoRepeat(Revisited))

\* {a: {x: [42], y: c, z: c}, b: a.x, c: b} has been returned after three
\* passes with the same array instance under a.y and a.z, and the reviver
\* that drops numbers was called on it twice, the second time on the array
\* it had already emptied.
C28_Witness ==
    /\ program = RootObject(<<ObjectExpression(<<
                                  Property("x", ArrayExpression(<<Literal(Num(42))>>)),
                                  Property("y", Identifier("c")),
                                  Property("z", Identifier("c"))>>),
                              MemberExpression(Identifier("a"), "x"), Identifier("b")>>)
    /\ options = [Defaults EXCEPT !.reviver = "dropNumbers"]
    /\ pc = "returned"
    /\ pass = 3
    /\ returned.vs[1].vs[2].t = "arr"
    /\ returned.vs[1].vs[2].id = returned.vs[1].vs[3].id
    /\ \E i, j \in DOMAIN calls :
          /\ i < j
          /\ calls[i].key = "y" /\ calls[j].key = "z"
          /\ calls[i].value.id = calls[j].value.id

\* When the last pass of an evaluation replaced nothing, the value is a tree.
C28_TreeAfterQuietPass ==
    (pc = "returned" /\ Resolving /\ ~changed) => NoRepeat(Instances(returned))

\* Two references to one container, resolved in a pass that is followed by
\* another, are returned as two instances.
C28_CopiedByNextPass ==
    /\ program = RootObject(<<ObjectExpression(<<
                                  Property("x", ArrayExpression(<<Literal(Num(42))>>)),
                                  Property("y", Identifier("b")),
                                  Property("z", Identifier("b"))>>),
                              MemberExpression(Identifier("a"), "x"), Literal(Num(42))>>)
    /\ options = Defaults
    /\ pc = "returned"
    /\ returned.vs[1].vs[2].t = "arr"
    /\ returned.vs[1].vs[2].id # returned.vs[1].vs[3].id

-----------------------------------------------------------------------------
(* What a resolve pass puts in the place of a placeholder, under Spec *)

\* The values that stand in `new` where `old` had a placeholder that the pass
\* replaced (a pass keeps the shape of the value everywhere else).
RECURSIVE Replacements(_, _)
Replacements(old, new) ==
    IF isUnresolved(old) THEN (IF new = old THEN {} ELSE {new})
    ELSE IF old.t \in {"obj", "arr"} /\ new.t = old.t /\ Len(new.vs) = Len(old.vs)
    THEN UNION {Replacements(old.vs[i], new.vs[i]) : i \in DOMAIN old.vs}
    ELSE {}

\* C25: whenever a resolve pass replaces a placeholder, the value it puts in
\* is neither a placeholder nor a container that holds a placeholder at any
\* depth.
C25_ConcreteReplacement ==
    [][(pc = "resolve" /\ pc' # "thrown") =>
          \A v \in Replacements(result, result') : ~HoldsPlaceholder(v)]_vars

\* In {a: [b], b: 42, c: a} the first resolve pass has put under c the array
\* of pass 1, which still holds the placeholder of b.
C25_Witness ==
    /\ program = RootObject(<<ArrayExpression(<<Identifier("b")>>), Literal(Num(42)),
                              Identifier("a")>>)
    /\ options = Defaults
    /\ pc = "resolve"
    /\ pass = 2
    /\ result.vs[1].vs = <<Num(42)>>
    /\ result.vs[3].t = "arr"
    /\ isUnresolved(result.vs[3].vs[1])

\* A replacement is never itself a placeholder.
C25_NeverAPlaceholder ==
    [][(pc = "resolve" /\ pc' # "thrown") =>
          \A v \in Replacements(result, result') : ~isUnresolved(v)]_vars

\* A pass has replaced a placeholder by a container with nothing left to resolve.
C25_ConcreteContainer ==
    /\ program = RootObject(<<ArrayExpression(<<Literal(Num(42))>>), Identifier("a")>>)
    /\ options = Defaults
    /\ pc = "check"
    /\ Plain(result.vs[2]) = [t |-> "arr", vs |-> <<Num(42)>>]

====
